---------------------------- MODULE Spec2Model ----------------------------
(***************************************************************************)
(* Model of the editing engine of the Mazu editor (src/me.c, the gap       *)
(* buffer revision that starts at line 2191 of the file): the gap buffer,  *)
(* the undo/redo history, the row cache and the key handlers of NORMAL and *)
(* SELECT mode.                                                            *)
(*                                                                         *)
(* Bytes are integers 0..255.  Pointers into the gap buffer are cell       *)
(* indices relative to gb->buffer, so buffer = 0 and ebuffer = size.       *)
(* The storage `mem' is a function defined on the cells that have been     *)
(* written; a cell outside its domain is uninitialised (inside the         *)
(* allocation) or out of bounds (index >= size), and a read of such a      *)
(* cell yields the byte `j' that the action draws from Junk.               *)
(***************************************************************************)
EXTENDS Integers, Sequences, FiniteSets, TLC

VARIABLES
    ec,     \* the editor: struct ec of me.c with *gb, *undo_stack and the statics
    hist    \* history variable: what the last step did (not program state)

vars == <<ec, hist>>

-----------------------------------------------------------------------------
(* Program constants *)

NL == 10
CR == 13
TAB == 9
SPACE == 32
TAB_STOP == 4
SLASH == 47
STAR == 42
DQUOTE == 34
SQUOTE == 39
BACKSLASH == 92
LBRACE == 123
RBRACE == 125
GAP_INITIAL_SIZE == 65536
GAP_GROW_SIZE == 4096
FILE_GAP_SIZE == 1024
MAX_UNDO_LEVELS == 100
FALLBACK_ROWS == 24
FALLBACK_COLS == 80

(* Bounds of the model *)

MaxLen == 2          \* longest text the editing keys may build
MaxFileLen == 2      \* longest file loaded at start
MaxEdits == 2        \* most undo records pushed in one run of Spec
MaxGapLen == 3       \* longest text in the gap buffer specification
MaxInitSize == 2     \* largest initial capacity drawn for gap_init
MaxChunk == 2        \* longest insertion or deletion of the gap buffer specification
MaxTyped == 101      \* characters typed in the scenario of Spec101
MaxHistLen == 2      \* longest text in the history specification
TermRows == 5        \* lines of the terminal window (ws_row)
TermCols == 80       \* columns of the terminal window (ws_col)
MaxRowsFileLen == 3  \* longest file of the row specification
MaxRowsEdits == 2    \* most edits in one run of the row specification
MaxHlRows == 3       \* most lines of a file of the highlighting specification
MaxHlEdits == 1      \* most edits in one run of the highlighting specification
MaxUtfRows == 2      \* most lines of a file of the UTF-8 specification
MaxUtfEdits == 1     \* most edits in one run of the UTF-8 specification
MaxEditFileLen == 1  \* most bytes of a file of the edit-record specification
MaxEditOps == 2      \* undo records after which that specification stops editing
MaxIndent == 1       \* most the indent level is away from 0 in it
MaxRuns == 2         \* most typed runs of the typed-run scenario
MaxRunLen == 3       \* most characters of one typed run
MaxSelFileLen == 2   \* most bytes of a file of the selection specification
MaxSelEdits == 1     \* undo records after which that specification stops editing
MaxSearchRows == 3   \* most lines of a file of the search specification
MaxQuery == 1        \* most characters typed into the query of a search
SearchCols == 2      \* columns of the terminal window of the search specification
MaxPasteFileLen == 3 \* most bytes of a file of the paste specification
MaxJoinFileLen == 5  \* most bytes of a file of the line-join specification
MaxJoins == 1        \* undo records after which that specification stops
MaxTermFileLen == 2  \* most bytes of a file of the terminal specification
SmallRows == 3       \* lines of the window after it was made small
SmallCols == 1       \* columns of the window after it was made small
MaxAtexit == 2       \* registrations with atexit that are told apart
MaxOomMoves == 40    \* cursor keys before the insertion of the full-buffer specification
MaxStrayRows == 2    \* most lines of a file of the stray-byte specification
MaxCrlfFileLen == 4  \* most bytes of a file of the line-ending specification
MaxTripFileLen == 3  \* most bytes of a file of the save-and-load specification
MaxTripEdits == 1    \* keys that may edit before the save of that specification
MaxLefts == 6        \* left arrows in a row that the "hello" specification counts
MaxStepLen == 3      \* most bytes of the row of the step-back-and-forth specification
MaxScanRows == 2     \* most lines of a file of the re-highlighting specification
MaxScanEdits == 1    \* most edits in one run of the re-highlighting specification
MaxEarlier == 2      \* keys of the earlier history of the undo-again specification

\* bytes the keyboard sends as text, bytes a file may hold, bytes an
\* uninitialised or out-of-bounds cell may read as
TypedBytes == {97}
FileBytes == {97, NL}
Junk == {0, 97}

-----------------------------------------------------------------------------
(* Sequences *)

Min(a, b) == IF a < b THEN a ELSE b
Max(a, b) == IF a > b THEN a ELSE b
Take(s, n) == SubSeq(s, 1, Min(n, Len(s)))
Drop(s, n) == SubSeq(s, n + 1, Len(s))

\* all byte strings over B of length <= n
RECURSIVE StringsUpTo(_, _)
StringsUpTo(B, n) ==
    IF n = 0 THEN {<<>>}
    ELSE LET S == StringsUpTo(B, n - 1)
         IN  S \cup {Append(s, b) : s \in {t \in S : Len(t) = n - 1}, b \in B}

\* the element of a set of one element; The({F(x) : x \in {v}}) is F(v) with
\* v worked out once
The(S) == CHOOSE x \in S : TRUE

\* strlen: the bytes before the first NUL
RECURSIVE CStr(_)
CStr(s) == IF s = <<>> \/ Head(s) = 0 THEN <<>> ELSE <<Head(s)>> \o CStr(Tail(s))

-----------------------------------------------------------------------------
(* UTF-8 helpers used by the cursor and the delete handler *)

utf8_byte_length(c) ==
    IF c < 128 THEN 1
    ELSE IF c >= 194 /\ c <= 223 THEN 2
    ELSE IF c >= 224 /\ c <= 239 THEN 3
    ELSE IF c >= 240 /\ c <= 244 THEN 4
    ELSE 1

is_utf8_continuation(c) == c >= 128 /\ c <= 191

\* utf8_prev_char(start, s) as an offset into chars (s is an offset too)
RECURSIVE utf8_skip_back(_, _)
utf8_skip_back(chars, s) ==
    IF s > 0 /\ s + 1 <= Len(chars) /\ is_utf8_continuation(chars[s + 1])
    THEN utf8_skip_back(chars, s - 1) ELSE s

\* utf8_prev_char stepping back one byte, whatever the byte is
utf8_prev_byte(chars, s) == IF s <= 0 THEN 0 ELSE s - 1

utf8_prev_char(chars, s) == IF s <= 0 THEN 0 ELSE utf8_skip_back(chars, s - 1)

\* utf8_next_char: chars[size] is the terminating NUL
utf8_next_char(chars, s) ==
    LET c == IF s + 1 <= Len(chars) THEN chars[s + 1] ELSE 0
    IN  IF c # 0 THEN s + utf8_byte_length(c) ELSE s

\* the byte at offset pos of a row, the terminating NUL at its end
ByteAt(chars, pos) == IF pos + 1 <= Len(chars) THEN chars[pos + 1] ELSE 0

\* utf8_validate(&chars[pos], 4): the length of the sequence, 0 if invalid
utf8_validate(chars, pos) ==
    LET c == ByteAt(chars, pos)
        s1 == ByteAt(chars, pos + 1)
        s2 == ByteAt(chars, pos + 2)
        s3 == ByteAt(chars, pos + 3)
    IN  IF c <= 127 THEN 1
        ELSE IF c < 192 \/ c > 247 THEN 0
        ELSE IF c <= 223
        THEN IF ~is_utf8_continuation(s1) \/ c < 194 THEN 0 ELSE 2
        ELSE IF c <= 239
        THEN IF ~is_utf8_continuation(s1) \/ ~is_utf8_continuation(s2) THEN 0
             ELSE IF c = 224 /\ s1 < 160 THEN 0
             ELSE IF c = 237 /\ s1 > 159 THEN 0
             ELSE 3
        ELSE IF c <= 244
        THEN IF \/ ~is_utf8_continuation(s1) \/ ~is_utf8_continuation(s2)
                \/ ~is_utf8_continuation(s3) THEN 0
             ELSE IF c = 240 /\ s1 < 144 THEN 0
             ELSE IF c = 244 /\ s1 > 143 THEN 0
             ELSE 4
        ELSE 0

\* utf8_to_codepoint(&chars[pos], 4): -1 if the sequence is invalid
utf8_decode(chars, pos, len) ==
    LET c == ByteAt(chars, pos)
        s1 == ByteAt(chars, pos + 1) % 64
        s2 == ByteAt(chars, pos + 2) % 64
        s3 == ByteAt(chars, pos + 3) % 64
    IN  IF len = 0 THEN -1
        ELSE IF len = 1 THEN c
        ELSE IF len = 2 THEN (c % 32) * 64 + s1
        ELSE IF len = 3 THEN (c % 16) * 4096 + s1 * 64 + s2
        ELSE (c % 8) * 262144 + s1 * 4096 + s2 * 64 + s3

utf8_to_codepoint(chars, pos) == utf8_decode(chars, pos, utf8_validate(chars, pos))

InRange(x, lo, hi) == x >= lo /\ x <= hi

\* utf8_char_width(&chars[pos]): the display width of the character
codepoint_width(cp) ==
    IF cp < 0 THEN 1
    ELSE IF cp < 32 \/ cp = 127 THEN 0
    ELSE IF \/ InRange(cp, 19968, 40959) \/ InRange(cp, 13312, 19903)
            \/ InRange(cp, 63744, 64255) \/ InRange(cp, 11904, 12031)
            \/ InRange(cp, 12288, 12351) \/ InRange(cp, 65280, 65519)
    THEN 2
    ELSE IF \/ InRange(cp, 768, 879) \/ InRange(cp, 6832, 6911)
            \/ InRange(cp, 7616, 7679)
    THEN 0
    ELSE 1

utf8_char_width(chars, pos) == codepoint_width(utf8_to_codepoint(chars, pos))

-----------------------------------------------------------------------------
(* Gap buffer: gap_buffer_t.  The field ub is a ghost: an access outside   *)
(* the allocation has happened.                                            *)

Cell(mem, i, j) == IF i \in DOMAIN mem THEN mem[i] ELSE j

gap_init(initial_size) ==
    [mem |-> <<>>, gap |-> 0, egap |-> initial_size, size |-> initial_size,
     modified |-> FALSE, ub |-> FALSE]

gap_length(gb) == gb.gap + (gb.size - gb.egap)

\* a < b between two size_t values: a negative number stands for the huge
\* value an unsigned subtraction wraps to
size_lt(a, b) == IF (a < 0) = (b < 0) THEN a < b ELSE b < 0

gap_ptr(gb, pos) ==
    IF ~size_lt(gb.gap, pos) THEN pos ELSE gb.egap + (pos - gb.gap)

\* memmove(dst, src, len) on the cells of gb
memmove(gb, dst, src, len, j) ==
    IF len <= 0 THEN gb
    ELSE LET D == dst .. (dst + len - 1)
             S == src .. (src + len - 1)
         IN  [gb EXCEPT
                !.mem = [i \in (DOMAIN gb.mem) \cup D |->
                            IF i \in D THEN Cell(gb.mem, src + (i - dst), j)
                            ELSE gb.mem[i]],
                !.ub = @ \/ (\E i \in D \cup S : i < 0 \/ i >= gb.size)]

\* memcpy(dst, text, len)
memcpy(gb, dst, text) ==
    IF text = <<>> THEN gb
    ELSE LET D == dst .. (dst + Len(text) - 1)
         IN  [gb EXCEPT
                !.mem = [i \in (DOMAIN gb.mem) \cup D |->
                            IF i \in D THEN text[i - dst + 1] ELSE gb.mem[i]],
                !.ub = @ \/ (\E i \in D : i < 0 \/ i >= gb.size)]

\* a gap_move that moves the anchors and leaves the text where it was
gap_move_nocopy(gb, pos, j) ==
    LET dest == gap_ptr(gb, pos)
    IN  IF dest < gb.gap
        THEN [gb EXCEPT !.egap = @ - (gb.gap - dest), !.gap = dest]
        ELSE IF dest > gb.egap
        THEN [gb EXCEPT !.gap = @ + (dest - gb.egap), !.egap = dest]
        ELSE gb

gap_move(gb, pos, j) ==
    LET dest == gap_ptr(gb, pos)
    IN  IF dest < gb.gap
        THEN LET len == gb.gap - dest
                 g1 == [gb EXCEPT !.egap = @ - len, !.gap = @ - len]
             IN  memmove(g1, g1.egap, g1.gap, len, j)
        ELSE IF dest > gb.egap
        THEN LET len == dest - gb.egap
                 g1 == memmove(gb, gb.gap, gb.egap, len, j)
             IN  [g1 EXCEPT !.gap = @ + len, !.egap = @ + len]
        ELSE gb

\* gap_grow: [ok, gb]; alloc_ok is whether realloc succeeds
gap_grow(gb, min_gap, alloc_ok) ==
    LET gap_size == gb.egap - gb.gap
    IN  IF ~size_lt(gap_size, min_gap) THEN [ok |-> TRUE, gb |-> gb]
        ELSE IF ~alloc_ok THEN [ok |-> FALSE, gb |-> gb]
        ELSE LET text_size == gap_length(gb)
                 new_size == text_size + min_gap + GAP_GROW_SIZE
                 after_gap_size == gb.size - gb.egap
                 g1 == [gb EXCEPT !.size = new_size,
                                  !.egap = new_size - after_gap_size]
             IN  [ok |-> TRUE,
                  gb |-> memmove(g1, g1.egap, gb.gap + gap_size,
                                 after_gap_size, 0)]

\* gap_insert after its gap_move and gap_grow, whose result is r
gap_insert_copy(r, text) ==
    IF ~r.ok THEN [ok |-> FALSE, gb |-> r.gb]
    ELSE [ok |-> TRUE,
          gb |-> [memcpy(r.gb, r.gb.gap, text) EXCEPT
                     !.gap = @ + Len(text), !.modified = TRUE]]

\* gap_insert: [ok, gb]
gap_insert(gb, pos, text, j, alloc_ok) ==
    gap_insert_copy(gap_grow(gap_move(gb, pos, j), Len(text), alloc_ok), text)

\* gap_delete after its gap_move, whose result is g1
gap_delete_extend(g1, len) ==
    LET available == g1.size - g1.egap
        n == IF size_lt(available, len) THEN available ELSE len
    IN  [g1 EXCEPT !.egap = @ + n, !.modified = TRUE]

gap_delete(gb, pos, len, j) == gap_delete_extend(gap_move(gb, pos, j), len)

gap_get_char(gb, pos, j) ==
    IF ~size_lt(pos, gap_length(gb)) THEN -1 ELSE Cell(gb.mem, gap_ptr(gb, pos), j)

\* the logical text: the cells [buffer, gap) followed by [egap, ebuffer)
LogicalText(gb) ==
    [p \in 1 .. gap_length(gb) |->
        IF p <= gb.gap THEN Cell(gb.mem, p - 1, -1)
        ELSE Cell(gb.mem, gb.egap + (p - 1 - gb.gap), -1)]

\* the text as gap_get_char reads it, position by position
ReadText(gb, j) == [p \in 1 .. gap_length(gb) |-> gap_get_char(gb, p - 1, j)]

-----------------------------------------------------------------------------
(* Undo history: undo_stack_t.  The doubly linked list from head to tail   *)
(* is the sequence `list'; current is an index into it, 0 for NULL and -1  *)
(* for a pointer to a node that has been freed.  Nodes that are no longer  *)
(* reachable from head (leaked) are not kept.  ub is a ghost: a freed node *)
(* has been dereferenced.                                                  *)

UNDO_INSERT == "UNDO_INSERT"
UNDO_DELETE == "UNDO_DELETE"
UNDO_REPLACE == "UNDO_REPLACE"

undo_init(max_levels) ==
    [list |-> <<>>, current |-> 0, count |-> 0, max_undos |-> max_levels,
     ub |-> FALSE]

undo_clear_redo(stack) ==
    IF stack.current = 0 THEN stack
    ELSE IF stack.current < 0 THEN [stack EXCEPT !.ub = TRUE]
    ELSE [stack EXCEPT !.list = Take(@, stack.current),
                       !.count = @ - (Len(stack.list) - stack.current)]

\* a history that never evicts
undo_no_evict(stack) == stack

\* the eviction loop at the end of undo_push
RECURSIVE undo_evict(_)
undo_evict(stack) ==
    IF stack.count > stack.max_undos /\ stack.list # <<>>
    THEN undo_evict([stack EXCEPT
                        !.list = Tail(@),
                        !.count = @ - 1,
                        !.current = IF @ = 1 THEN -1
                                    ELSE IF @ > 1 THEN @ - 1 ELSE @])
    ELSE stack

\* the linking of the new node in undo_push, after undo_clear_redo gave s1
undo_link(s1, node) ==
    IF s1.current > 0
    THEN [s1 EXCEPT !.list = Append(@, node), !.current = @ + 1, !.count = @ + 1]
    ELSE IF s1.current = 0
    THEN [s1 EXCEPT !.list = <<node>>, !.current = 1, !.count = @ + 1]
    ELSE [s1 EXCEPT !.count = @ + 1]

undo_push(stack, type, pos, text) ==
    IF Len(text) = 0 THEN stack
    ELSE undo_evict(undo_link(undo_clear_redo(stack),
                              [type |-> type, pos |-> pos, text |-> text]))

\* gap_insert_with_undo after its gap_insert, whose result is r
gap_insert_track(r, undo, pos, text) ==
    IF ~r.ok THEN [ok |-> FALSE, gb |-> r.gb, undo |-> undo]
    ELSE [ok |-> TRUE, gb |-> r.gb,
          undo |-> undo_push(undo, UNDO_INSERT, pos, text)]

\* gap_insert_with_undo: [ok, gb, undo]
gap_insert_with_undo(gb, undo, pos, text, j) ==
    gap_insert_track(gap_insert(gb, pos, text, j, TRUE), undo, pos, text)

\* gap_insert_with_undo when the realloc of gap_grow gives alloc_ok
gap_insert_with_undo_mem(gb, undo, pos, text, j, alloc_ok) ==
    gap_insert_track(gap_insert(gb, pos, text, j, alloc_ok), undo, pos, text)

\* the bytes gap_delete_with_undo saves before it deletes
SavedText(gb, pos, len, j) ==
    LET n == IF gap_length(gb) < 0 THEN len
             ELSE Max(0, Min(len, gap_length(gb) - pos))
    IN  [i \in 1 .. n |-> gap_get_char(gb, pos + i - 1, j)]

\* gap_delete_with_undo: [gb, undo]
gap_delete_with_undo(gb, undo, pos, len, j) ==
    [gb |-> gap_delete(gb, pos, len, j),
     undo |-> IF len > 0 /\ size_lt(pos, gap_length(gb))
              THEN undo_push(undo, UNDO_DELETE, pos, SavedText(gb, pos, len, j))
              ELSE undo]

-----------------------------------------------------------------------------
(* Row cache: editor_row_t, of which idx and chars are modelled (size is   *)
(* Len(chars)).                                                            *)

NumRows(e) == Len(e.row)

\* the render column after the character at byte_pos, which starts at
\* render column render_x
NextRenderX(chars, byte_pos, render_x) ==
    IF chars[byte_pos + 1] = TAB
    THEN render_x + (TAB_STOP - 1) - (render_x % TAB_STOP) + 1
    ELSE render_x + utf8_char_width(chars, byte_pos)

\* the offset of the character after the one at byte_pos
NextBytePos(chars, byte_pos) ==
    IF chars[byte_pos + 1] = TAB THEN byte_pos + 1
    ELSE byte_pos + utf8_byte_length(chars[byte_pos + 1])

\* row_cursorx_to_renderx: one turn of its loop seen from byte i of the
\* row, st being <<byte_pos, render_x>>: the loop is at a character only
\* when byte_pos = i
cursorx_step(chars, i, st) ==
    IF st[1] = i THEN <<NextBytePos(chars, i), NextRenderX(chars, i, st[2])>> ELSE st

\* the turns of the loop for the bytes lo .. hi - 1, the row being halved
\* so that a long row is walked without deep nesting
RECURSIVE cursorx_to_renderx(_, _, _, _)
cursorx_to_renderx(chars, lo, hi, st) ==
    IF hi <= lo THEN st
    ELSE IF hi = lo + 1 THEN cursorx_step(chars, lo, st)
    ELSE The({cursorx_to_renderx(chars, (lo + hi) \div 2, hi, half) :
                 half \in {cursorx_to_renderx(chars, lo, (lo + hi) \div 2, st)}})

row_cursorx_to_renderx(chars, cursor_x) ==
    cursorx_to_renderx(chars, 0, Min(Len(chars), cursor_x), <<0, 0>>)[2]

RECURSIVE renderx_to_cursorx(_, _, _, _)
renderx_to_cursorx(chars, render_x, byte_pos, next_render_x) ==
    IF next_render_x > render_x THEN byte_pos
    ELSE IF NextBytePos(chars, byte_pos) >= Len(chars) THEN NextBytePos(chars, byte_pos)
    ELSE renderx_to_cursorx(chars, render_x, NextBytePos(chars, byte_pos),
                            NextRenderX(chars, NextBytePos(chars, byte_pos),
                                        next_render_x))

row_renderx_to_cursorx(chars, render_x) ==
    IF chars = <<>> THEN 0
    ELSE renderx_to_cursorx(chars, render_x, 0, NextRenderX(chars, 0, 0))

\* row_update: the spaces a tab becomes when idx bytes are rendered
TabSpaces(idx) == [k \in 1 .. TAB_STOP - (idx % TAB_STOP) |-> SPACE]

\* row_update: the render bytes of the row from byte_pos on, idx bytes
\* being rendered already
RECURSIVE render_from(_, _, _)
render_from(chars, byte_pos, idx) ==
    IF byte_pos >= Len(chars) THEN <<>>
    ELSE IF chars[byte_pos + 1] = TAB
    THEN TabSpaces(idx) \o render_from(chars, byte_pos + 1,
                                       idx + TAB_STOP - (idx % TAB_STOP))
    ELSE SubSeq(chars, byte_pos + 1, Min(NextBytePos(chars, byte_pos), Len(chars)))
         \o render_from(chars, NextBytePos(chars, byte_pos),
                        idx + Min(NextBytePos(chars, byte_pos), Len(chars)) - byte_pos)

\* row->render as row_update fills it
Render(chars) == render_from(chars, 0, 0)

\* the offsets at which needle occurs in haystack
Occurrences(haystack, needle) ==
    {k \in 0 .. Len(haystack) - Len(needle) :
        SubSeq(haystack, k + 1, k + Len(needle)) = needle}

strstr_first(at) == IF at = {} THEN -1 ELSE CHOOSE k \in at : \A m \in at : k <= m

\* strstr(haystack, needle) as an offset, -1 for NULL; the bytes are not NUL
strstr(haystack, needle) == strstr_first(Occurrences(haystack, needle))

\* the bytes of the rows, row by row
RowChars(e) == [k \in 1 .. Len(e.row) |-> e.row[k].chars]

\* the byte offset of the start of row y, as every edit operation sums it
RowPos(e, y) ==
    LET F[i \in 0 .. Len(e.row)] ==
            IF i = 0 THEN 0 ELSE F[i - 1] + Len(e.row[i].chars) + 1
    IN  F[Min(Max(y, 0), Len(e.row))]

ui_set_message(e, msg) == [e EXCEPT !.status_msg = msg]

\* whether the bytes of r from position i (1-based) on begin with the two
\* bytes a, b
hl_at(r, i, a, b) == i + 1 <= Len(r) /\ r[i] = a /\ r[i + 1] = b

\* the loop of syntax_highlight for the C syntax ("//", "/*", "*/", strings),
\* from byte i on: the value of in_comment at its end.  render is chars,
\* the rows of this model holding neither tabs nor wide characters; the
\* keywords and numbers it colours contain none of the comment bytes.
RECURSIVE hl_scan(_, _, _, _)
hl_scan(r, i, in_string, in_comment) ==
    IF i > Len(r) THEN in_comment
    ELSE IF in_string = 0 /\ ~in_comment /\ hl_at(r, i, SLASH, SLASH) THEN in_comment
    ELSE IF in_string = 0 /\ in_comment
    THEN IF hl_at(r, i, STAR, SLASH) THEN hl_scan(r, i + 2, 0, FALSE)
         ELSE hl_scan(r, i + 1, 0, TRUE)
    ELSE IF in_string = 0 /\ hl_at(r, i, SLASH, STAR) THEN hl_scan(r, i + 2, 0, TRUE)
    ELSE IF in_string # 0
    THEN IF r[i] = BACKSLASH /\ i + 1 <= Len(r) THEN hl_scan(r, i + 2, in_string, in_comment)
         ELSE hl_scan(r, i + 1, IF r[i] = in_string THEN 0 ELSE in_string, in_comment)
    ELSE IF r[i] \in {DQUOTE, SQUOTE} THEN hl_scan(r, i + 1, r[i], in_comment)
    ELSE hl_scan(r, i + 1, 0, in_comment)

\* syntax_highlight: the assignment of row->hl_open_comment.  e.hl keeps
\* count of the scans: count is the number of rows scanned since it was
\* reset, chain the number scanned by the re-highlight under way, live
\* tells that this re-highlight has just begun or that the row it scanned
\* last changed its hl_open_comment, and ok that every row was scanned
\* while live and as at most the Len(e.row)-th of its re-highlight
hl_set(e, y, in_comment) ==
    [e EXCEPT !.row[y + 1].hl_open_comment = in_comment,
              !.hl = [count |-> @.count + 1,
                      chain |-> @.chain + 1,
                      live |-> in_comment # e.row[y + 1].hl_open_comment,
                      ok |-> @.ok /\ @.live /\ @.chain + 1 <= Len(e.row)]]

\* a re-highlight begins
hl_start(e) == [e EXCEPT !.hl.chain = 0, !.hl.live = TRUE]

\* no row scanned yet
hl_none == [count |-> 0, chain |-> 0, live |-> TRUE, ok |-> TRUE]

\* syntax_highlight going on to the next row whether or not the row's
\* hl_open_comment changed
RECURSIVE syntax_highlight_all(_, _, _)
syntax_highlight_all(e, y, n) ==
    IF ~e.syntax THEN e
    ELSE IF e.row[y + 1].idx - 1 >= Len(e.row) THEN [e EXCEPT !.ub = TRUE]
    ELSE LET row == e.row[y + 1]
             in_comment == hl_scan(row.chars, 1, 0,
                               row.idx > 0 /\ e.row[row.idx].hl_open_comment)
         IN  IF row.idx + 1 < n
             THEN syntax_highlight_all(hl_set(e, y, in_comment), row.idx + 1, n)
             ELSE hl_set(e, y, in_comment)

\* syntax_highlight of the row at array index y, n being ec.num_rows at
\* the time of the call: the row before and the row after are found
\* through row->idx
RECURSIVE syntax_highlight(_, _, _)
syntax_highlight(e, y, n) ==
    IF ~e.syntax THEN e
    ELSE IF e.row[y + 1].idx - 1 >= Len(e.row) THEN [e EXCEPT !.ub = TRUE]
    ELSE LET row == e.row[y + 1]
             in_comment == hl_scan(row.chars, 1, 0,
                               row.idx > 0 /\ e.row[row.idx].hl_open_comment)
         IN  IF in_comment # row.hl_open_comment /\ row.idx + 1 < n
             THEN syntax_highlight(hl_set(e, y, in_comment), row.idx + 1, n)
             ELSE hl_set(e, y, in_comment)

\* row_update: render is not modelled, so it is the highlighting
row_update(e, y) == syntax_highlight(hl_start(e), y, NumRows(e))

\* the rows that appending the lines one by one with row_insert gives
BuildRows(syntax, lines) ==
    LET open[k \in 0 .. Len(lines)] ==
            IF k = 0 \/ ~syntax THEN FALSE
            ELSE hl_scan(lines[k], 1, 0, open[k - 1])
    IN  [k \in 1 .. Len(lines) |->
            [idx |-> k - 1, chars |-> lines[k], hl_open_comment |-> open[k]]]

\* row_insert: row_update runs before ec.num_rows is incremented
row_insert(e, at, s) ==
    IF at < 0 \/ at > NumRows(e) THEN e
    ELSE syntax_highlight(
             [hl_start(e) EXCEPT
                !.row = [k \in 1 .. Len(e.row) + 1 |->
                            IF k <= at THEN e.row[k]
                            ELSE IF k = at + 1
                            THEN [idx |-> at, chars |-> s, hl_open_comment |-> FALSE]
                            ELSE [e.row[k - 1] EXCEPT !.idx = @ + 1]],
                !.modified = TRUE],
             at, NumRows(e))

\* removal of row `at' with the idx of the rows behind it decremented
row_remove(e, at) ==
    [e EXCEPT !.row = [k \in 1 .. Len(e.row) - 1 |->
                          IF k <= at THEN e.row[k]
                          ELSE [e.row[k + 1] EXCEPT !.idx = @ - 1]]]

\* the rows a text splits into, as the loop of gap_sync_to_rows builds them
RECURSIVE SplitLines(_)
SplitLines(t) ==
    IF t = <<>> THEN <<>>
    ELSE LET nl == {k \in 1 .. Len(t) : t[k] = NL}
             e1 == IF nl = {} THEN Len(t) + 1
                   ELSE CHOOSE k \in nl : \A m \in nl : k <= m
         IN  <<SubSeq(t, 1, e1 - 1)>> \o SplitLines(Drop(t, e1))

\* file_open: the lines getline reads from the file, each without the one
\* '\n' or '\r' that ends it
file_lines(content) ==
    IF content # <<>> /\ content[Len(content)] = CR
    THEN [SplitLines(content) EXCEPT
             ![Len(SplitLines(content))] =
                 SubSeq(SplitLines(content)[Len(SplitLines(content))], 1,
                        Len(SplitLines(content)[Len(SplitLines(content))]) - 1)]
    ELSE SplitLines(content)

SyncLines(t) == IF SplitLines(t) = <<>> THEN << <<>> >> ELSE SplitLines(t)

gap_sync_to_rows(e, j) ==
    LET lines == SyncLines(ReadText(e.gb, j))
        n == Len(lines)
        cy == IF e.cursor_y >= n THEN n - 1 ELSE e.cursor_y
        cx == IF cy >= 0 /\ cy < n
              THEN Min(e.cursor_x, Len(lines[cy + 1]))
              ELSE e.cursor_x
    IN  [e EXCEPT !.row = BuildRows(e.syntax, lines),
                  !.modified = e.gb.modified,
                  !.cursor_y = cy,
                  !.cursor_x = cx]

-----------------------------------------------------------------------------
(* Keys (enum editor_key and CTRL_) and modes *)

BACKSPACE == 127
ARROW_LEFT == 1000
ARROW_RIGHT == 1001
ARROW_UP == 1002
ARROW_DOWN == 1003
PAGE_UP == 1004
PAGE_DOWN == 1005
HOME_KEY == 1006
END_KEY == 1007
DEL_KEY == 1008
ENTER == 13
ESC == 27
CTRL_C == 3
CTRL_F == 6
CTRL_H == 8
CTRL_K == 11
CTRL_R == 18
CTRL_V == 22
CTRL_X == 24
CTRL_Z == 26

MODE_NORMAL == "NORMAL"
MODE_SELECT == "SELECT"
MODE_BROWSER == "BROWSER"

-----------------------------------------------------------------------------
(* Undo and redo *)

\* a gap operation's result [gb, undo] stored into the editor
with_gap(e, d) == [e EXCEPT !.gb = d.gb, !.undo_stack = d.undo]

\* the switch of undo_perform: the gap buffer with the current node reversed
undo_reverse(gb, stack, j) ==
    LET node == stack.list[stack.current]
    IN  CASE node.type = UNDO_INSERT ->
                 gap_delete(gb, node.pos, Len(node.text), j)
          [] node.type = UNDO_DELETE ->
                 gap_insert(gb, node.pos, node.text, j, TRUE).gb
          [] OTHER ->
                 IF stack.current > 1
                    /\ stack.list[stack.current - 1].type = UNDO_DELETE
                 THEN gap_insert(gap_delete(gb, node.pos, Len(node.text), j),
                                 node.pos, stack.list[stack.current - 1].text,
                                 j, TRUE).gb
                 ELSE gap_delete(gb, node.pos, Len(node.text), j)

\* the end of undo_perform, after gap_sync_to_rows gave e2
undo_mark(e2) == [e2 EXCEPT !.gb.modified = (e2.undo_stack.current # 0)]

\* undo_perform: [ok, ec]
undo_perform(e, j) ==
    IF e.undo_stack.current = 0 THEN [ok |-> FALSE, ec |-> e]
    ELSE IF e.undo_stack.current < 0
    THEN [ok |-> TRUE, ec |-> [e EXCEPT !.undo_stack.ub = TRUE]]
    ELSE [ok |-> TRUE,
          ec |-> undo_mark(gap_sync_to_rows(
                     [e EXCEPT !.gb = undo_reverse(e.gb, e.undo_stack, j),
                               !.undo_stack.current = @ - 1], j))]

\* the switch of undo_redo: the gap buffer with the next node re-applied
undo_reapply(gb, node, j) ==
    CASE node.type = UNDO_INSERT ->
             gap_insert(gb, node.pos, node.text, j, TRUE).gb
      [] node.type = UNDO_DELETE ->
             gap_delete(gb, node.pos, Len(node.text), j)
      [] OTHER ->
             gap_insert(gap_delete(gb, node.pos, Len(node.text), j),
                        node.pos, node.text, j, TRUE).gb

\* undo_redo: [ok, ec]
undo_redo(e, j) ==
    IF e.undo_stack.current < 0
    THEN [ok |-> FALSE, ec |-> [e EXCEPT !.undo_stack.ub = TRUE]]
    ELSE IF e.undo_stack.current + 1 > Len(e.undo_stack.list)
    THEN [ok |-> FALSE, ec |-> e]
    ELSE [ok |-> TRUE,
          ec |-> gap_sync_to_rows(
                     [e EXCEPT !.gb = undo_reapply(e.gb,
                                          e.undo_stack.list[e.undo_stack.current + 1], j),
                               !.undo_stack.current = @ + 1], j)]

-----------------------------------------------------------------------------
(* Modes and cursor motion *)

mode_set(e, new_mode) ==
    LET e1 == [e EXCEPT !.prev_mode = e.mode, !.mode = new_mode]
        n == NumRows(e1)
    IN  IF new_mode = MODE_SELECT
        THEN LET clamp == e1.cursor_y >= n /\ n > 0
                 cy == IF clamp THEN n - 1 ELSE e1.cursor_y
                 cx == IF clamp THEN Len(e1.row[cy + 1].chars) ELSE e1.cursor_x
             IN  [e1 EXCEPT !.cursor_y = cy, !.cursor_x = cx,
                            !.selection = [start_x |-> cx, start_y |-> cy,
                                           end_x |-> cx, end_y |-> cy,
                                           active |-> TRUE],
                            !.status_msg = "-- SELECT MODE --"]
        ELSE IF new_mode = MODE_NORMAL
        THEN [e1 EXCEPT !.selection.active = FALSE, !.status_msg = ""]
        ELSE e1

editor_move_cursor(e, key) ==
    LET n == NumRows(e)
        cx == e.cursor_x
        cy == e.cursor_y
        hasrow == cy < n
        chars == IF hasrow THEN e.row[cy + 1].chars ELSE <<>>
        e1 == IF key = ARROW_LEFT
              THEN IF cx # 0
                   THEN [e EXCEPT !.cursor_x = IF hasrow THEN utf8_prev_char(chars, cx)
                                               ELSE cx - 1]
                   ELSE IF cy > 0
                   THEN IF cy - 1 < n
                        THEN [e EXCEPT !.cursor_y = cy - 1,
                                       !.cursor_x = Len(e.row[cy].chars)]
                        ELSE [e EXCEPT !.cursor_y = cy - 1, !.ub = TRUE]
                   ELSE e
              ELSE IF key = ARROW_RIGHT
              THEN IF hasrow /\ cx < Len(chars)
                   THEN [e EXCEPT !.cursor_x = Min(utf8_next_char(chars, cx), Len(chars))]
                   ELSE IF hasrow /\ cx = Len(chars)
                   THEN [e EXCEPT !.cursor_y = cy + 1, !.cursor_x = 0]
                   ELSE e
              ELSE IF key = ARROW_UP
              THEN IF cy # 0 THEN [e EXCEPT !.cursor_y = cy - 1] ELSE e
              ELSE IF key = ARROW_DOWN
              THEN IF cy < n THEN [e EXCEPT !.cursor_y = cy + 1] ELSE e
              ELSE e
        row_len == IF e1.cursor_y < n THEN Len(e1.row[e1.cursor_y + 1].chars) ELSE 0
    IN  IF e1.cursor_x > row_len THEN [e1 EXCEPT !.cursor_x = row_len] ELSE e1

RECURSIVE move_times(_, _, _)
move_times(e, key, times) ==
    IF times <= 0 THEN e ELSE move_times(editor_move_cursor(e, key), key, times - 1)

\* the PAGE_UP / PAGE_DOWN case of editor_process_key
editor_page(e, c) ==
    LET e1 == [e EXCEPT !.cursor_y = IF c = PAGE_UP THEN e.row_offset
                                     ELSE e.row_offset + e.screen_rows - 1]
    IN  move_times(e1, IF c = PAGE_UP THEN ARROW_UP ELSE ARROW_DOWN, e.screen_rows)

\* editor_scroll, which editor_refresh runs after a key; the line numbers
\* are off, so get_line_number_width is 0
editor_scroll_cols(e, render_x) ==
    [e EXCEPT !.col_offset =
        IF render_x >= Min(render_x, e.col_offset) + e.screen_cols
        THEN render_x - e.screen_cols + 1
        ELSE Min(render_x, e.col_offset)]

editor_scroll_rows(e) ==
    LET r1 == IF e.cursor_y < e.row_offset THEN e.cursor_y ELSE e.row_offset
        r2 == IF e.cursor_y >= r1 + e.screen_rows
              THEN e.cursor_y - e.screen_rows + 1 ELSE r1
    IN  [e EXCEPT !.row_offset = r2]

\* editor_scroll: the value it gives ec.render_x
editor_render_x(e) ==
    IF e.cursor_y < NumRows(e) /\ e.cursor_y >= 0
    THEN row_cursorx_to_renderx(e.row[e.cursor_y + 1].chars, e.cursor_x)
    ELSE 0

editor_scroll(e) ==
    The({editor_scroll_cols(editor_scroll_rows(x), editor_render_x(x)) : x \in {e}})

-----------------------------------------------------------------------------
(* Edit operations.  A handler that goes on with the result of a gap     *)
(* operation is written as a chain of operators, one per stretch of its    *)
(* code, each taking the editor the stretch before it left.                *)

\* replaces the bytes of row y (0-based), keeping its idx
SetChars(e, y, chars) == [e EXCEPT !.row[y + 1].chars = chars]

editor_copy(e, cut) ==
    IF e.cursor_y >= NumRows(e) THEN e
    ELSE ui_set_message(
             [e EXCEPT !.copied_char_buffer = <<CStr(e.row[e.cursor_y + 1].chars)>>],
             IF cut # 0 THEN "Text cut" ELSE "Text copied")

\* editor_cut: the cursor adjustment at its end
editor_cut_cursor(e3) ==
    [e3 EXCEPT !.cursor_y = IF @ >= NumRows(e3) /\ NumRows(e3) > 0
                            THEN NumRows(e3) - 1 ELSE @,
               !.cursor_x = 0,
               !.modified = TRUE]

\* editor_cut: the removal of the row from the display structure
editor_cut_row(e2) ==
    editor_cut_cursor(IF NumRows(e2) > 1 THEN row_remove(e2, e2.cursor_y)
                      ELSE row_update(SetChars(e2, 0, <<>>), 0))

\* editor_cut: the deletion of the line from the gap buffer
editor_cut_line(e1, j) ==
    LET cy == e1.cursor_y
        line_len == Len(e1.row[cy + 1].chars)
                    + (IF cy < NumRows(e1) - 1 THEN 1 ELSE 0)
    IN  editor_cut_row(with_gap(e1,
            gap_delete_with_undo(e1.gb, e1.undo_stack, RowPos(e1, cy), line_len, j)))

editor_cut(e, j) ==
    IF e.cursor_y >= NumRows(e) THEN e ELSE editor_cut_line(editor_copy(e, -1), j)

\* editor_paste: the validation of the cursor at its start
editor_paste_clamp(e) ==
    LET n == NumRows(e)
        y0 == IF e.cursor_y >= n THEN (IF n > 0 THEN n - 1 ELSE 0) ELSE e.cursor_y
        x0 == IF e.cursor_y >= n
              THEN (IF n > 0 THEN Len(e.row[n].chars) ELSE 0)
              ELSE e.cursor_x
        x1 == IF y0 < n THEN Min(x0, Len(e.row[y0 + 1].chars)) ELSE x0
    IN  [e EXCEPT !.cursor_y = y0, !.cursor_x = x1]

\* editor_paste: the cursor placed after the pasted text, e2 being the
\* editor after gap_sync_to_rows
editor_paste_cursor(e2, paste_start_x, paste_start_y, text) ==
    LET n2 == NumRows(e2)
        paste_len == Len(text)
        nls == {k \in 1 .. paste_len : text[k] = NL}
        has_newlines == nls # {}
        lines_in_paste == Cardinality(nls)
        lastnl == IF nls = {} THEN 0 ELSE CHOOSE k \in nls : \A m \in nls : m <= k
        last_line_len == paste_len - lastnl
        cy == IF has_newlines
              THEN (IF paste_start_y + lines_in_paste >= n2 THEN n2 - 1
                    ELSE paste_start_y + lines_in_paste)
              ELSE e2.cursor_y
        cx0 == IF has_newlines THEN last_line_len ELSE paste_start_x + paste_len
        cx == IF cy < n2 /\ cy >= 0 /\ cx0 > Len(e2.row[cy + 1].chars)
              THEN Len(e2.row[cy + 1].chars) ELSE cx0
    IN  ui_set_message([e2 EXCEPT !.cursor_y = cy, !.cursor_x = cx,
                                  !.modified = TRUE],
                       "Pasted")

\* editor_paste: after gap_insert_with_undo gave r
editor_paste_done(e1, r, text, j) ==
    IF ~r.ok THEN [e1 EXCEPT !.gb = r.gb]
    ELSE editor_paste_cursor(gap_sync_to_rows(with_gap(e1, r), j),
                             e1.cursor_x, e1.cursor_y, text)

\* editor_paste: the insertion at the validated cursor
editor_paste_insert(e1, text, j) ==
    editor_paste_done(e1,
        gap_insert_with_undo(e1.gb, e1.undo_stack,
                             RowPos(e1, e1.cursor_y) + e1.cursor_x, text, j),
        text, j)

editor_paste(e, j) ==
    IF e.copied_char_buffer = <<>> THEN e
    ELSE editor_paste_insert(editor_paste_clamp(e), CStr(e.copied_char_buffer[1]), j)

\* editor_newline: the update of the row structure
editor_newline_rows(e1) ==
    LET cy == e1.cursor_y
        cx == e1.cursor_x
    IN  IF cx = 0 THEN row_insert(e1, cy, <<>>)
        ELSE IF cy >= NumRows(e1) \/ cx > Len(e1.row[cy + 1].chars)
        THEN [e1 EXCEPT !.ub = TRUE]
        ELSE row_update(
                 SetChars(row_insert(e1, cy + 1, Drop(e1.row[cy + 1].chars, cx)),
                          cy, Take(e1.row[cy + 1].chars, cx)),
                 cy)

\* editor_newline: the cursor moved to the start of the new line
editor_newline_cursor(e2) ==
    [e2 EXCEPT !.cursor_y = @ + 1, !.cursor_x = 0, !.modified = TRUE]

\* editor_newline: after gap_insert_with_undo gave r
editor_newline_done(e, r) ==
    IF ~r.ok THEN [e EXCEPT !.gb = r.gb]
    ELSE editor_newline_cursor(editor_newline_rows(with_gap(e, r)))

editor_newline(e, j) ==
    editor_newline_done(e,
        gap_insert_with_undo(e.gb, e.undo_stack,
                             RowPos(e, e.cursor_y) + e.cursor_x, <<NL>>, j))

\* the number of bytes of the sequence that lead byte `byte' announces to
\* editor_insert_char, 0 for a byte it rejects
utf8_expected(byte) ==
    IF byte <= 127 THEN 1
    ELSE IF byte >= 192 /\ byte <= 223 THEN 2
    ELSE IF byte >= 224 /\ byte <= 239 THEN 3
    ELSE IF byte >= 240 /\ byte <= 247 THEN 4
    ELSE 0

\* editor_insert_char: the bytes put into the current row
editor_insert_bytes(e2, bytes) ==
    LET cy == e2.cursor_y
        cx == e2.cursor_x
    IN  IF cy >= NumRows(e2) \/ cx > Len(e2.row[cy + 1].chars)
        THEN [e2 EXCEPT !.ub = TRUE]
        ELSE [row_update(SetChars(e2, cy, Take(e2.row[cy + 1].chars, cx) \o bytes
                                          \o Drop(e2.row[cy + 1].chars, cx)),
                         cy)
                 EXCEPT !.cursor_x = cx + Len(bytes), !.modified = TRUE]

\* editor_insert_char: the row added when the cursor is on the line past
\* the last row
editor_insert_row(e1) ==
    IF e1.cursor_y = NumRows(e1) THEN row_insert(e1, NumRows(e1), <<>>) ELSE e1

\* editor_insert_char: after gap_insert_with_undo gave r
editor_insert_done(e, r, bytes) ==
    IF ~r.ok THEN [e EXCEPT !.gb = r.gb]
    ELSE editor_insert_bytes(editor_insert_row(with_gap(e, r)), bytes)

\* editor_insert_char: the reset of utf8_buffer at its end
editor_insert_reset(e3) ==
    [e3 EXCEPT !.utf8_buffer = [bytes |-> <<>>, expected |-> 0]]

editor_insert_char(e, c, j) ==
    LET byte == c % 256
        expected == IF e.utf8_buffer.bytes = <<>> THEN utf8_expected(byte)
                    ELSE e.utf8_buffer.expected
        bytes == Append(e.utf8_buffer.bytes, byte)
    IN  IF expected = 0 THEN e
        ELSE IF Len(bytes) < expected
        THEN [e EXCEPT !.utf8_buffer = [bytes |-> bytes, expected |-> expected]]
        ELSE editor_insert_reset(editor_insert_done(e,
                 gap_insert_with_undo(e.gb, e.undo_stack,
                                      RowPos(e, e.cursor_y) + e.cursor_x, bytes, j),
                 bytes))

\* editor_insert_char when the realloc of gap_grow gives alloc_ok
editor_insert_char_mem(e, c, j, alloc_ok) ==
    LET byte == c % 256
        expected == IF e.utf8_buffer.bytes = <<>> THEN utf8_expected(byte)
                    ELSE e.utf8_buffer.expected
        bytes == Append(e.utf8_buffer.bytes, byte)
    IN  IF expected = 0 THEN e
        ELSE IF Len(bytes) < expected
        THEN [e EXCEPT !.utf8_buffer = [bytes |-> bytes, expected |-> expected]]
        ELSE editor_insert_reset(editor_insert_done(e,
                 gap_insert_with_undo_mem(e.gb, e.undo_stack,
                                          RowPos(e, e.cursor_y) + e.cursor_x, bytes, j,
                                          alloc_ok),
                 bytes))

RECURSIVE insert_tabs(_, _, _)
insert_tabs(e, k, j) ==
    IF k <= 0 THEN e ELSE insert_tabs(editor_insert_char(e, TAB, j), k - 1, j)

\* editor_delete_char: the character before the cursor taken out of the
\* row, e1 being the editor after gap_delete_with_undo
editor_delete_in_row(e1, prev_pos) ==
    [row_update(SetChars(e1, e1.cursor_y,
                         Take(e1.row[e1.cursor_y + 1].chars, prev_pos)
                         \o Drop(e1.row[e1.cursor_y + 1].chars, e1.cursor_x)),
                e1.cursor_y)
        EXCEPT !.cursor_x = prev_pos, !.modified = TRUE]

\* editor_delete_char joining the rows without moving the cursor to the
\* join point
editor_delete_join_home(e1) ==
    [row_remove(row_update(SetChars(e1, e1.cursor_y - 1,
                                    e1.row[e1.cursor_y].chars
                                        \o e1.row[e1.cursor_y + 1].chars),
                           e1.cursor_y - 1),
                e1.cursor_y)
        EXCEPT !.cursor_x = 0,
               !.cursor_y = e1.cursor_y - 1,
               !.modified = TRUE]

\* editor_delete_char: the current row joined to the one before it
editor_delete_join(e1) ==
    LET cy == e1.cursor_y
    IN  [row_remove(row_update(SetChars(e1, cy - 1,
                                        e1.row[cy].chars \o e1.row[cy + 1].chars),
                               cy - 1),
                    cy)
            EXCEPT !.cursor_x = Len(e1.row[cy].chars),
                   !.cursor_y = cy - 1,
                   !.modified = TRUE]

editor_delete_char(e, j) ==
    LET n == NumRows(e)
        cy == e.cursor_y
        cx == e.cursor_x
    IN  IF cy = n THEN e
        ELSE IF cx = 0 /\ cy = 0 THEN e
        ELSE IF cy > n \/ cx > Len(e.row[cy + 1].chars) THEN [e EXCEPT !.ub = TRUE]
        ELSE IF cx > 0
        THEN LET prev_pos == utf8_prev_char(e.row[cy + 1].chars, cx)
             IN  editor_delete_in_row(
                     with_gap(e, gap_delete_with_undo(e.gb, e.undo_stack,
                                     RowPos(e, cy) + prev_pos, cx - prev_pos, j)),
                     prev_pos)
        ELSE editor_delete_join(
                 with_gap(e, gap_delete_with_undo(e.gb, e.undo_stack,
                                                  RowPos(e, cy) - 1, 1, j)))

\* CTRL_('k'), first branch: the row cut from the cursor to its end
editor_kill_to_end(e1, text) ==
    ui_set_message([row_update(SetChars([e1 EXCEPT !.copied_char_buffer = <<text>>],
                                        e1.cursor_y,
                                        Take(e1.row[e1.cursor_y + 1].chars, e1.cursor_x)),
                               e1.cursor_y)
                       EXCEPT !.modified = TRUE],
                   "Cut to end of line")

\* CTRL_('k'), second branch: the removal of the next row, e2 being the
\* editor after the row_update of the joined row; the rows behind are
\* moved down with their idx unchanged
editor_kill_remove(e2) ==
    ui_set_message(
        [e2 EXCEPT !.row = [k \in 1 .. NumRows(e2) - 1 |->
                               IF k <= e2.cursor_y + 1 THEN e2.row[k]
                               ELSE e2.row[k + 1]],
                   !.modified = TRUE],
        "Lines joined")

\* CTRL_('k'), second branch: the next row joined to the current one
editor_kill_join(e1) ==
    editor_kill_remove(
        row_update(SetChars(e1, e1.cursor_y,
                            e1.row[e1.cursor_y + 1].chars \o e1.row[e1.cursor_y + 2].chars),
                   e1.cursor_y))

\* the CTRL_('k') case of editor_process_key
editor_kill_line(e, j) ==
    LET n == NumRows(e)
        cy == e.cursor_y
        cx == e.cursor_x
    IN  IF cy >= n THEN e
        ELSE IF cx < Len(e.row[cy + 1].chars)
        THEN editor_kill_to_end(
                 with_gap(e, gap_delete_with_undo(e.gb, e.undo_stack,
                                 RowPos(e, cy) + cx, Len(e.row[cy + 1].chars) - cx, j)),
                 Drop(e.row[cy + 1].chars, cx))
        ELSE IF cx = Len(e.row[cy + 1].chars) /\ cy < n - 1
        THEN editor_kill_join(
                 with_gap(e, gap_delete_with_undo(e.gb, e.undo_stack,
                                 RowPos(e, cy) + Len(e.row[cy + 1].chars), 1, j)))
        ELSE editor_cut(e, j)

-----------------------------------------------------------------------------
(* Search.  ec.search holds the static variables of search_callback and    *)
(* the three counters beside it, ec.prompt the local variables of          *)
(* search_find and ui_prompt while the editor waits for a key inside       *)
(* ui_prompt.  ec.hl_over holds the highlight bytes of the rows whose      *)
(* bytes are not the ones syntax_highlight gave them; the files searched   *)
(* have no syntax, so syntax_highlight gives NORMAL for every render byte. *)

HL_NORMAL == "NORMAL"
HL_MATCH == "MATCH"

search_init ==
    [last_match |-> -1, total_matches |-> 0, current_match |-> 0, direction |-> 1,
     saved_highlight_line |-> 0, saved_hightlight |-> <<>>]

\* row->highlight as syntax_highlight leaves it without a syntax
HlBase(e, y) == [k \in 1 .. Len(Render(e.row[y + 1].chars)) |-> HL_NORMAL]

\* row->highlight of row y (0-based)
Highlight(e, y) == IF y \in DOMAIN e.hl_over THEN e.hl_over[y] ELSE HlBase(e, y)

\* the highlight bytes of row y replaced by hl
SetHighlight(e, y, hl) ==
    [e EXCEPT !.hl_over =
        [k \in (DOMAIN e.hl_over \cup {y}) \ (IF hl = HlBase(e, y) THEN {y} ELSE {}) |->
            IF k = y THEN hl ELSE e.hl_over[k]]]

\* search_callback: the saved highlight copied back over the row it was
\* taken from
search_restore(e) ==
    LET s == e.search
    IN  IF /\ s.saved_hightlight # <<>>
           /\ s.saved_highlight_line >= 0 /\ s.saved_highlight_line < NumRows(e)
        THEN [SetHighlight(e, s.saved_highlight_line, s.saved_hightlight[1])
                 EXCEPT !.search.saved_hightlight = <<>>]
        ELSE e

\* search_callback: the number of places where the query occurs in the rows
search_count(e, query) ==
    LET F[y \in 0 .. NumRows(e)] ==
            IF y = 0 THEN 0
            ELSE F[y - 1] + Cardinality(Occurrences(Render(e.row[y].chars), query))
    IN  F[NumRows(e)]

\* search_callback: the match counter after a hit
search_counter(s) ==
    IF s.total_matches <= 0 THEN s.current_match
    ELSE IF s.direction = 1 THEN (s.current_match % s.total_matches) + 1
    ELSE IF s.current_match - 1 > 0 THEN s.current_match - 1
    ELSE s.total_matches

\* search_callback: the query found in row `current' at render offset match
search_mark(e, query, current, match, hl) ==
    [SetHighlight(e, current,
                  [k \in 1 .. Len(hl) |->
                      IF k > match /\ k <= match + Len(query) THEN HL_MATCH ELSE hl[k]])
        EXCEPT !.cursor_y = current,
               !.cursor_x = row_renderx_to_cursorx(e.row[current + 1].chars, match),
               !.row_offset = NumRows(e),
               !.search.last_match = current,
               !.search.saved_highlight_line = current,
               !.search.saved_hightlight = <<hl>>,
               !.search.current_match = search_counter(e.search)]

search_hit(e, query, current, match) ==
    The({search_mark(e, query, current, match, hl) : hl \in {Highlight(e, current)}})

\* search_callback: the row tried after row `current'
search_next(e, current) ==
    IF current + e.search.direction = -1 THEN NumRows(e) - 1
    ELSE IF current + e.search.direction = NumRows(e) THEN 0
    ELSE current + e.search.direction

\* search_callback: the loop over the rows, i rows being tried already and
\* `current' being the last of them
RECURSIVE search_rows(_, _, _, _)
search_rows(e, query, current, i) ==
    IF i >= NumRows(e) THEN e
    ELSE The({IF match >= 0
              THEN search_hit(e, query, search_next(e, current), match)
              ELSE search_rows(e, query, search_next(e, current), i + 1) :
                 match \in {strstr(Render(e.row[search_next(e, current) + 1].chars),
                                   query)}})

\* search_callback: the search itself, after the key has set the direction
search_scan(e, query) ==
    IF query = <<>> THEN e ELSE search_rows(e, query, e.search.last_match, 0)

\* search_callback: the switch on the key, e1 being the editor after the
\* restoration of the highlight
search_switch(e1, query, key) ==
    IF key = ENTER \/ key = ESC
    THEN [e1 EXCEPT !.search.last_match = -1, !.search.direction = 1,
                    !.search.total_matches = 0, !.search.current_match = 0]
    ELSE IF key = ARROW_RIGHT \/ key = ARROW_DOWN
    THEN [e1 EXCEPT !.search.direction = 1]
    ELSE IF key = ARROW_LEFT \/ key = ARROW_UP
    THEN IF e1.search.last_match = -1 THEN e1
         ELSE [e1 EXCEPT !.search.direction = -1]
    ELSE [e1 EXCEPT !.search.last_match = -1, !.search.direction = 1,
                    !.search.total_matches = search_count(e1, query),
                    !.search.current_match = 0]

\* search_callback: whether the switch returns from the callback
search_returns(e1, key) ==
    \/ key = ENTER \/ key = ESC
    \/ (key = ARROW_LEFT \/ key = ARROW_UP) /\ e1.search.last_match = -1

search_key(e1, query, key) ==
    The({IF search_returns(e1, key) THEN e2 ELSE search_scan(e2, query) :
            e2 \in {search_switch(e1, query, key)}})

search_callback(e, query, key) ==
    The({search_key(e1, query, key) : e1 \in {search_restore(e)}})

\* iscntrl(c) and isprint(c) in the "C" locale; for a key code that is not
\* an unsigned char the two calls read outside the table of <ctype.h>, and
\* `printable' is what !iscntrl(c) && isprint(c) comes to
is_printable(c, printable) ==
    IF c >= 0 /\ c <= 255 THEN c >= 32 /\ c <= 126 ELSE printable

\* search_find up to the first term_read_key of ui_prompt
search_find_open(e) ==
    editor_scroll(
        ui_set_message(
            [e EXCEPT !.prompt = [active |-> TRUE, buf |-> <<>>,
                                  saved_x |-> e.cursor_x, saved_y |-> e.cursor_y,
                                  saved_col |-> e.col_offset,
                                  saved_row |-> e.row_offset],
                      !.search.last_match = -1,
                      !.search.total_matches = 0,
                      !.search.current_match = 0],
            "Search"))

\* search_find without its four assignments after a NULL from ui_prompt
search_find_keep(e, cancelled) ==
    [e EXCEPT !.prompt.active = FALSE, !.prompt.buf = <<>>]

\* search_find after ui_prompt returned, cancelled telling whether it
\* returned NULL
search_find_restore(e, cancelled) ==
    IF cancelled
    THEN [e EXCEPT !.cursor_x = e.prompt.saved_x,
                   !.cursor_y = e.prompt.saved_y,
                   !.col_offset = e.prompt.saved_col,
                   !.row_offset = e.prompt.saved_row,
                   !.prompt.active = FALSE, !.prompt.buf = <<>>]
    ELSE [e EXCEPT !.prompt.active = FALSE, !.prompt.buf = <<>>]

search_find_close(e, cancelled) ==
    The({mode_set(search_find_restore(x, cancelled), MODE_NORMAL) : x \in {e}})

\* ui_prompt: the buffer after the key c
prompt_buf(buf, c, printable) ==
    IF c = DEL_KEY \/ c = CTRL_H \/ c = BACKSPACE
    THEN IF buf # <<>> THEN SubSeq(buf, 1, Len(buf) - 1) ELSE buf
    ELSE IF c = ESC \/ c = ENTER THEN buf
    ELSE IF is_printable(c, printable) THEN Append(buf, c % 256)
    ELSE buf

\* ui_prompt: whether the key c ends the prompt
prompt_ends(buf, c) == c = ESC \/ (c = ENTER /\ buf # <<>>)

\* ui_prompt: from the callback to the return of search_find, or to the
\* next term_read_key of the loop
search_prompt_end(e, c, ends) ==
    IF ends THEN search_find_close(e, c = ESC)
    ELSE editor_scroll(ui_set_message(e, "Search"))

\* one key read by ui_prompt during a search, up to the next term_read_key
\* of ui_prompt or of editor_process_key
search_prompt_turn(e, buf, c, ends) ==
    search_prompt_end(search_callback(IF ends THEN ui_set_message(e, "")
                                      ELSE [e EXCEPT !.prompt.buf = buf],
                                      buf, c),
                      c, ends)

search_prompt_key(e, c, printable) ==
    search_prompt_turn(e, prompt_buf(e.prompt.buf, c, printable), c,
                       prompt_ends(e.prompt.buf, c))

-----------------------------------------------------------------------------
(* Key dispatch in NORMAL mode and start-up.  The keys of save, quit,      *)
(* search, the file browser, help and the line-number toggle are not among *)
(* the inputs of this model, so their cases are absent.                    *)

\* the CTRL_('z') case after undo_perform gave r
editor_undo_key(r) ==
    IF r.ok
    THEN ui_set_message([r.ec EXCEPT !.modified = r.ec.gb.modified], "Undo performed")
    ELSE ui_set_message(r.ec, "Nothing to undo")

\* the CTRL_('r') case after undo_redo gave r
editor_redo_key(r) ==
    IF r.ok
    THEN ui_set_message([r.ec EXCEPT !.modified = r.ec.gb.modified], "Redo performed")
    ELSE ui_set_message(r.ec, "Nothing to redo")

\* the keys of MODE_BROWSER other than Enter; the list of entries and the
\* entry selected in it are not modelled
editor_browser_key(e, c) ==
    IF c = ESC THEN mode_set(e, MODE_NORMAL) ELSE e

\* the '{' case of editor_process_key
editor_brace_open(e, c, j) ==
    [editor_insert_char(e, c, j) EXCEPT !.indent_level = e.indent_level + 1]

\* the '}' case of editor_process_key: the statements before the label none
editor_brace_untab(e, j) ==
    LET n == NumRows(e)
        cy == e.cursor_y
        cx == e.cursor_x
    IN  IF cy = n \/ (cx = 0 /\ cy = 0) \/ cx <= 0 THEN e
        ELSE IF cy > n \/ cx > Len(e.row[cy + 1].chars) THEN [e EXCEPT !.ub = TRUE]
        ELSE IF e.row[cy + 1].chars[cx] = TAB THEN editor_delete_char(e, j)
        ELSE e

\* the '}' case of editor_process_key
editor_brace_close(e, c, j) ==
    [editor_insert_char(editor_brace_untab(e, j), c, j)
        EXCEPT !.indent_level = e.indent_level - 1]

\* the switch of editor_process_key on the key in NORMAL mode
editor_normal_key(e, c, j) ==
    IF c = ENTER
    THEN insert_tabs(editor_newline(e, j), e.indent_level, j)
    ELSE IF c = CTRL_C
    THEN IF e.cursor_y < NumRows(e) THEN editor_copy(e, 0) ELSE e
    ELSE IF c = CTRL_K
    THEN editor_kill_line(e, j)
    ELSE IF c = CTRL_V
    THEN editor_paste(e, j)
    ELSE IF c = CTRL_Z
    THEN editor_undo_key(undo_perform(e, j))
    ELSE IF c = CTRL_R
    THEN editor_redo_key(undo_redo(e, j))
    ELSE IF c \in {ARROW_UP, ARROW_DOWN, ARROW_LEFT, ARROW_RIGHT}
    THEN editor_move_cursor(e, c)
    ELSE IF c \in {PAGE_UP, PAGE_DOWN}
    THEN editor_page(e, c)
    ELSE IF c = HOME_KEY
    THEN [e EXCEPT !.cursor_x = 0]
    ELSE IF c = END_KEY
    THEN IF e.cursor_y < NumRows(e)
         THEN [e EXCEPT !.cursor_x = Len(e.row[e.cursor_y + 1].chars)]
         ELSE e
    ELSE IF c = BACKSPACE
    THEN editor_delete_char(e, j)
    ELSE IF c = DEL_KEY
    THEN editor_delete_char(editor_move_cursor(e, ARROW_RIGHT), j)
    ELSE IF c = ESC
    THEN e
    ELSE IF c = CTRL_F
    THEN search_find_open(e)
    ELSE IF c = CTRL_X
    THEN IF e.mode # MODE_SELECT
         THEN ui_set_message(mode_set(e, MODE_SELECT), "Mark set")
         ELSE e
    ELSE IF c = LBRACE
    THEN editor_brace_open(e, c, j)
    ELSE IF c = RBRACE
    THEN editor_brace_close(e, c, j)
    ELSE editor_insert_char(e, c, j)

\* the selection with start before end, as selection_get_text and
\* selection_delete normalise it
selection_normal(sel) ==
    IF sel.start_y > sel.end_y \/ (sel.start_y = sel.end_y /\ sel.start_x > sel.end_x)
    THEN [start_x |-> sel.end_x, start_y |-> sel.end_y,
          end_x |-> sel.start_x, end_y |-> sel.start_y]
    ELSE [start_x |-> sel.start_x, start_y |-> sel.start_y,
          end_x |-> sel.end_x, end_y |-> sel.end_y]

\* selection_get_text: the bytes it copies from row y (0-based) of a
\* selection of several lines
selection_line(e, s, y) ==
    LET chars == e.row[y + 1].chars
    IN  IF y = s.start_y THEN Drop(chars, Min(s.start_x, Len(chars))) \o <<NL>>
        ELSE IF y = s.end_y THEN Take(chars, s.end_x)
        ELSE chars \o <<NL>>

RECURSIVE selection_lines(_, _, _)
selection_lines(e, s, y) ==
    IF y > s.end_y \/ y >= NumRows(e) THEN <<>>
    ELSE selection_line(e, s, y) \o selection_lines(e, s, y + 1)

\* selection_get_text after the test of active, s being the normalised
\* selection; <<>> stands for NULL, which it returns when total_size is 0
selection_text(e, s) ==
    IF s.start_y >= NumRows(e) \/ s.end_y >= NumRows(e) THEN <<>>
    ELSE IF s.start_y = s.end_y
    THEN LET chars == e.row[s.start_y + 1].chars
         IN  SubSeq(chars, Min(s.start_x, Len(chars)) + 1, Min(s.end_x, Len(chars)))
    ELSE selection_lines(e, s, s.start_y)

selection_get_text(e) ==
    IF ~e.selection.active THEN <<>> ELSE selection_text(e, selection_normal(e.selection))

\* selection_copy after selection_get_text gave text
selection_copy_text(e, text) ==
    IF text = <<>> THEN e
    ELSE ui_set_message([e EXCEPT !.copied_char_buffer = <<text>>], "Selection copied")

selection_copy(e) ==
    IF ~e.selection.active THEN ui_set_message(e, "No selection to copy")
    ELSE selection_copy_text(e, selection_get_text(e))

\* selection_delete: the position in the gap buffer of column x of row y
selection_pos(e, x, y) == RowPos(e, y) + x

\* selection_delete: the cursor put at the start of the range, e2 being the
\* editor after gap_sync_to_rows
selection_delete_cursor(e2, s) ==
    [e2 EXCEPT !.cursor_y = s.start_y, !.cursor_x = s.start_x, !.modified = TRUE]

\* selection_delete: the deletion of the range from start_pos to end_pos
selection_delete_range(e, s, start_pos, end_pos, j) ==
    IF end_pos > start_pos
    THEN selection_delete_cursor(
             gap_sync_to_rows(
                 with_gap(e, gap_delete_with_undo(e.gb, e.undo_stack, start_pos,
                                                  end_pos - start_pos, j)),
                 j),
             s)
    ELSE e

\* selection_delete after the test of active, s being the normalised
\* selection
selection_delete_normal(e, s, j) ==
    mode_set([selection_delete_range(e, s, selection_pos(e, s.start_x, s.start_y),
                                     selection_pos(e, s.end_x, s.end_y), j)
                 EXCEPT !.selection.active = FALSE],
             MODE_NORMAL)

selection_delete(e, j) ==
    IF ~e.selection.active THEN e
    ELSE selection_delete_normal(e, selection_normal(e.selection), j)

selection_cut(e, j) ==
    IF ~e.selection.active THEN ui_set_message(e, "No selection to cut")
    ELSE ui_set_message(selection_delete(selection_copy(e), j), "Selection cut")

\* the keys of MODE_SELECT that move the cursor: the end of the selection
\* follows the cursor
select_extend(e) ==
    [e EXCEPT !.selection.end_x = e.cursor_x, !.selection.end_y = e.cursor_y]

\* the arrow keys of MODE_SELECT: the cursor kept on the last row
select_clamp(e) ==
    IF e.cursor_y >= NumRows(e) /\ NumRows(e) > 0
    THEN [e EXCEPT !.cursor_y = NumRows(e) - 1,
                   !.cursor_x = Len(e.row[NumRows(e)].chars)]
    ELSE e

\* the switch of editor_process_key on the key in MODE_SELECT; its default
\* case leaves the switch on the mode and goes on to the switch on the key
editor_select_key(e, c, j) ==
    IF c = ESC
    THEN ui_set_message(mode_set([e EXCEPT !.selection.active = FALSE], MODE_NORMAL),
                        "Mark cancelled")
    ELSE IF c \in {ARROW_UP, ARROW_DOWN, ARROW_LEFT, ARROW_RIGHT}
    THEN select_extend(select_clamp(editor_move_cursor(e, c)))
    ELSE IF c = HOME_KEY
    THEN select_extend([e EXCEPT !.cursor_x = 0])
    ELSE IF c = END_KEY
    THEN select_extend(IF e.cursor_y < NumRows(e)
                       THEN [e EXCEPT !.cursor_x = Len(e.row[e.cursor_y + 1].chars)]
                       ELSE e)
    ELSE IF c \in {PAGE_UP, PAGE_DOWN}
    THEN select_extend(editor_page(e, c))
    ELSE IF c = CTRL_C
    THEN ui_set_message(mode_set(selection_copy(e), MODE_NORMAL), "Copied marked text")
    ELSE IF c = CTRL_K
    THEN ui_set_message(mode_set(selection_cut(e, j), MODE_NORMAL), "Cut marked text")
    ELSE IF c = CTRL_V
    THEN mode_set(editor_paste(selection_delete(e, j), j), MODE_NORMAL)
    ELSE IF c \in {DEL_KEY, BACKSPACE}
    THEN selection_delete(e, j)
    ELSE editor_normal_key(mode_set(e, MODE_NORMAL), c, j)

\* editor_process_key: the switch on the mode, then the switch on the key
editor_process_key(e, c, j) ==
    IF e.mode = MODE_BROWSER
    THEN editor_browser_key(e, c)
    ELSE IF e.mode = MODE_SELECT
    THEN editor_select_key(e, c, j)
    ELSE editor_normal_key(e, c, j)

\* gap_load_file of a file whose bytes are `content'
gap_load_file(gb, content) ==
    LET g0 == [gb EXCEPT !.gap = 0, !.egap = gb.size]
        g1 == IF content = <<>> THEN g0
              ELSE gap_insert(g0, gap_length(g0), content, 0, TRUE).gb
    IN  [g1 EXCEPT !.modified = FALSE]

\* term_update_size: the value of ec.screen_rows
term_update_size(got_size, ws_row) ==
    (IF got_size THEN ws_row ELSE FALLBACK_ROWS) - 2

\* term_update_size: the value of ec.screen_cols
term_update_cols(got_size, ws_col) ==
    IF got_size THEN ws_col ELSE FALLBACK_COLS

\* editor_init followed by the first ui_set_message of main
editor_init ==
    [cursor_x |-> 0, cursor_y |-> 0, row_offset |-> 0, col_offset |-> 0,
     screen_rows |-> term_update_size(TRUE, TermRows),
     screen_cols |-> term_update_cols(TRUE, TermCols),
     search |-> search_init,
     prompt |-> [active |-> FALSE, buf |-> <<>>, saved_x |-> 0, saved_y |-> 0,
                 saved_col |-> 0, saved_row |-> 0],
     hl_over |-> <<>>,
     hl |-> hl_none,
     row |-> <<>>, modified |-> FALSE,
     gb |-> gap_init(GAP_INITIAL_SIZE),
     undo_stack |-> undo_init(MAX_UNDO_LEVELS),
     mode |-> MODE_NORMAL, prev_mode |-> MODE_NORMAL,
     selection |-> [start_x |-> 0, start_y |-> 0, end_x |-> 0, end_y |-> 0,
                    active |-> FALSE],
     status_msg |-> "Mazu Editor | Ctrl-? Help",
     copied_char_buffer |-> <<>>,
     utf8_buffer |-> [bytes |-> <<>>, expected |-> 0],
     indent_level |-> 0,
     file_name |-> "",
     syntax |-> FALSE,
     ub |-> FALSE]

\* syntax_select for a file name: of the names of this model only "file.c"
\* matches an entry of DB
syntax_select(file_name) == file_name = "file.c"

\* file_open of the file `file_name' whose bytes are `content': getline
\* cuts the file after every '\n' and the loop drops that one byte of each
\* line
file_open(e, file_name, content) ==
    [e EXCEPT !.cursor_x = 0, !.cursor_y = 0, !.row_offset = 0,
              !.gb = gap_load_file(gap_init(FILE_GAP_SIZE), content),
              !.undo_stack = undo_init(MAX_UNDO_LEVELS),
              !.row = BuildRows(syntax_select(file_name), file_lines(content)),
              !.file_name = file_name,
              !.syntax = syntax_select(file_name),
              !.modified = FALSE]

-----------------------------------------------------------------------------
(* Save, quit and the file browser.  What the user answers to a prompt and *)
(* whether the system calls of a save succeed are inputs.  file_name is "" *)
(* for NULL.                                                               *)

\* file_rows_to_string with the '\n' only between two rows
RECURSIVE file_rows_to_string_between(_)
file_rows_to_string_between(rows) ==
    IF rows = <<>> THEN <<>>
    ELSE IF Len(rows) = 1 THEN rows[1].chars
    ELSE rows[1].chars \o <<NL>> \o file_rows_to_string_between(Tail(rows))

\* file_rows_to_string: every row followed by '\n'
RECURSIVE file_rows_to_string(_)
file_rows_to_string(rows) ==
    IF rows = <<>> THEN <<>>
    ELSE rows[1].chars \o <<NL>> \o file_rows_to_string(Tail(rows))

\* file_save once the file has a name; io_ok: open, ftruncate and write
\* all succeed
file_write(e, io_ok) ==
    IF io_ok
    THEN ui_set_message([e EXCEPT !.modified = FALSE], "written to disk")
    ELSE ui_set_message(e, "Error")

\* file_save; name_given: the user enters a name at the prompt "Save as"
file_save(e, name_given, io_ok) ==
    IF e.file_name = ""
    THEN IF name_given
         THEN file_write([e EXCEPT !.file_name = "file"], io_ok)
         ELSE ui_set_message(e, "Save aborted")
    ELSE file_write(e, io_ok)

\* ftruncate: the bytes of a file of bytes `content' once cut, or filled with
\* zero bytes, to `len' bytes
ftruncate(content, len) ==
    IF len <= Len(content) THEN Take(content, len)
    ELSE content \o [i \in 1 .. len - Len(content) |-> 0]

\* file_save: the bytes of the file afterwards, `disk' being its bytes
\* before (none when open creates it); open_ok and truncate_ok: open and
\* ftruncate succeed; written: the number of bytes that write puts at the
\* start of the file
file_save_disk(e, disk, open_ok, truncate_ok, written) ==
    IF ~open_ok \/ ~truncate_ok THEN disk
    ELSE Take(file_rows_to_string(e.row), written)
             \o Drop(ftruncate(disk, Len(file_rows_to_string(e.row))), written)

\* ui_confirm, answered: the message it leaves
ui_confirm(e) == ui_set_message(e, "")

\* the CTRL_('q') case of editor_process_key: [ec, asked, exited]; yes is
\* the answer given if the confirmation is asked
editor_quit(e, yes) ==
    IF e.modified
    THEN [ec |-> ui_confirm(e), asked |-> TRUE, exited |-> yes]
    ELSE [ec |-> e, asked |-> FALSE, exited |-> TRUE]

\* the CTRL_('o') case of editor_process_key
browser_enter(e) ==
    ui_set_message(mode_set(e, MODE_BROWSER),
                   "File Browser: Enter to open, ESC to cancel")

\* browser_open_selected: the opening of the new file with bytes `content'
browser_open_file(e1, content) ==
    ui_set_message(mode_set(file_open(e1, "file", content), MODE_NORMAL), "Opened")

\* browser_open_selected on an entry that is a file; yes answers the
\* confirmation "Save before opening new file?"
browser_open_selected(e, yes, name_given, io_ok, content) ==
    IF e.modified
    THEN IF yes
         THEN browser_open_file(file_save(ui_confirm(e), name_given, io_ok), content)
         ELSE ui_confirm(e)
    ELSE browser_open_file(e, content)

-----------------------------------------------------------------------------
(* The editor under key presses.  Each action is one pass of the loop of   *)
(* main: editor_process_key on one key, then the scroll of editor_refresh. *)
(* A run stops where the process has indexed ec.row out of bounds or has   *)
(* dereferenced a freed undo node; a stray access one cell off the gap     *)
(* buffer's allocation is survived and the run goes on.                    *)

\* hist describes the last step: key is the key when it recorded an edit or
\* was undo or redo, pre the text before the step; pushed: the step pushed
\* an undo record; undid: it was a successful undo right after such a step;
\* redid: a successful redo right after such an undo; fresh: a redo right
\* after a step that pushed; base: the text before the step before it
HistInit ==
    [key |-> 0, pre |-> <<>>, base |-> <<>>, pushed |-> FALSE,
     undid |-> FALSE, redid |-> FALSE, fresh |-> FALSE]

Init ==
    /\ ec \in {editor_init}
              \cup {file_open(editor_init, "file", f) : f \in StringsUpTo(FileBytes, MaxFileLen)}
    /\ hist = HistInit

Alive == ~ec.ub /\ ~ec.undo_stack.ub

\* the text may grow by n bytes and one more undo record may be pushed
CanGrow(n) == gap_length(ec.gb) + n <= MaxLen /\ ec.undo_stack.count < MaxEdits
CanEdit == ec.undo_stack.count < MaxEdits

Record(c, e2) ==
    LET pushed == c \notin {CTRL_Z, CTRL_R} /\ e2.undo_stack # ec.undo_stack
        undid == c = CTRL_Z /\ hist.pushed /\ e2.status_msg = "Undo performed"
        redid == c = CTRL_R /\ hist.undid /\ e2.status_msg = "Redo performed"
        kept == pushed \/ c \in {CTRL_Z, CTRL_R}
    IN  /\ ec' = e2
        /\ hist' = [key |-> IF kept THEN c ELSE 0,
                    pre |-> IF kept THEN LogicalText(ec.gb) ELSE <<>>,
                    base |-> IF undid \/ redid THEN hist.pre ELSE <<>>,
                    pushed |-> pushed,
                    undid |-> undid,
                    redid |-> redid,
                    fresh |-> c = CTRL_R /\ hist.pushed]

Step(c, j) == Record(c, editor_scroll(editor_process_key(ec, c, j)))

TypeChar == Alive /\ CanGrow(1) /\ \E c \in TypedBytes, j \in Junk : Step(c, j)
PressEnter == Alive /\ CanGrow(1) /\ \E j \in Junk : Step(ENTER, j)
PressBackspace == Alive /\ CanEdit /\ \E j \in Junk : Step(BACKSPACE, j)
PressDelete == Alive /\ CanEdit /\ \E j \in Junk : Step(DEL_KEY, j)
KillLine == Alive /\ CanEdit /\ \E j \in Junk : Step(CTRL_K, j)
CopyLine == Alive /\ Step(CTRL_C, 0)
Paste ==
    /\ Alive
    /\ ec.copied_char_buffer # <<>>
    /\ CanGrow(Len(CStr(ec.copied_char_buffer[1])))
    /\ \E j \in Junk : Step(CTRL_V, j)
Undo == Alive /\ \E j \in Junk : Step(CTRL_Z, j)
Redo == Alive /\ \E j \in Junk : Step(CTRL_R, j)
MoveCursor ==
    Alive /\ \E c \in {ARROW_UP, ARROW_DOWN, ARROW_LEFT, ARROW_RIGHT} : Step(c, 0)
PageKey == Alive /\ \E c \in {PAGE_UP, PAGE_DOWN} : Step(c, 0)
HomeEnd == Alive /\ \E c \in {HOME_KEY, END_KEY} : Step(c, 0)

Next ==
    \/ TypeChar
    \/ PressEnter
    \/ PressBackspace
    \/ PressDelete
    \/ KillLine
    \/ CopyLine
    \/ Paste
    \/ Undo
    \/ Redo
    \/ MoveCursor
    \/ PageKey
    \/ HomeEnd

Spec == Init /\ [][Next]_vars

-----------------------------------------------------------------------------
(* The undo history at its limit: an editor started without a file, in    *)
(* which a character is typed and undo and redo are pressed.  The text is  *)
(* kept short; the history's count is left to the code.                    *)

HistType ==
    /\ Alive
    /\ gap_length(ec.gb) < MaxHistLen
    /\ \E c \in TypedBytes : Step(c, 0)
HistUndo == Alive /\ Step(CTRL_Z, 0)
HistRedo == Alive /\ Step(CTRL_R, 0)

InitHist == ec = editor_init /\ hist = HistInit

NextHist ==
    \/ HistType
    \/ HistUndo
    \/ HistRedo

SpecHist == InitHist /\ [][NextHist]_vars

-----------------------------------------------------------------------------
(* The scenario of MaxTyped insertions followed by undos, from an empty    *)
(* buffer.  hist counts the characters typed and the undos pressed.        *)

Init101 == ec = editor_init /\ hist = [typed |-> 0, undos |-> 0]

Type101 ==
    /\ hist.undos = 0
    /\ hist.typed < MaxTyped
    /\ \E c \in TypedBytes : ec' = editor_scroll(editor_process_key(ec, c, 0))
    /\ hist' = [hist EXCEPT !.typed = @ + 1]

Undo101 ==
    /\ hist.typed = MaxTyped
    /\ hist.undos < MaxTyped + 1
    /\ ec' = editor_scroll(editor_process_key(ec, CTRL_Z, 0))
    /\ hist' = [hist EXCEPT !.undos = @ + 1]

Next101 ==
    \/ Type101
    \/ Undo101

Spec101 == Init101 /\ [][Next101]_vars

-----------------------------------------------------------------------------
(* The gap buffer alone, against a plain byte sequence hist.ref to which   *)
(* the same insertions and deletions are applied.  The buffer starts with  *)
(* a small capacity, so that gap_grow takes part.                          *)

InitGap ==
    /\ \E n \in 1 .. MaxInitSize : ec = [editor_init EXCEPT !.gb = gap_init(n)]
    /\ hist = [ref |-> <<>>]

GapMove ==
    \E pos \in 0 .. gap_length(ec.gb), j \in Junk :
        /\ ec' = [ec EXCEPT !.gb = gap_move(ec.gb, pos, j)]
        /\ hist' = hist

GapInsert ==
    \E pos \in 0 .. gap_length(ec.gb), j \in Junk,
       text \in StringsUpTo(FileBytes, MaxChunk) \ {<<>>} :
        /\ gap_length(ec.gb) + Len(text) <= MaxGapLen
        /\ ec' = [ec EXCEPT !.gb = gap_insert(ec.gb, pos, text, j, TRUE).gb]
        /\ hist' = [ref |-> Take(hist.ref, pos) \o text \o Drop(hist.ref, pos)]

GapDelete ==
    \E pos \in 0 .. gap_length(ec.gb), j \in Junk, len \in 1 .. MaxChunk :
        /\ ec' = [ec EXCEPT !.gb = gap_delete(ec.gb, pos, len, j)]
        /\ hist' = [ref |-> Take(hist.ref, pos) \o Drop(hist.ref, pos + len)]

NextGap ==
    \/ GapMove
    \/ GapInsert
    \/ GapDelete

SpecGap == InitGap /\ [][NextGap]_vars

-----------------------------------------------------------------------------
(* Save, quit and the file browser.  hist.clean is the text as it was last *)
(* loaded or saved; asked and exited tell what the last Ctrl-Q did; failed *)
(* tells that the last step ran a save that failed, and pre, rows and was  *)
(* are then the text, the rows and the modified flag before that step.     *)

FileHist(clean) ==
    [clean |-> clean, asked |-> FALSE, exited |-> FALSE, failed |-> FALSE,
     pre |-> <<>>, rows |-> <<>>, was |-> FALSE]

FileFailed(clean) ==
    [clean |-> clean, asked |-> FALSE, exited |-> FALSE, failed |-> TRUE,
     pre |-> LogicalText(ec.gb), rows |-> RowChars(ec), was |-> ec.modified]

InitFile ==
    /\ ec \in {editor_init}
              \cup {file_open(editor_init, "file", f) : f \in StringsUpTo(FileBytes, MaxFileLen)}
    /\ hist = FileHist(LogicalText(ec.gb))

FileAlive == Alive /\ ~hist.exited

FileKey(c) ==
    /\ ec' = editor_scroll(editor_process_key(ec, c, 0))
    /\ hist' = FileHist(hist.clean)

FileType ==
    /\ FileAlive
    /\ ec.mode = MODE_NORMAL
    /\ CanGrow(1)
    /\ \E c \in TypedBytes : FileKey(c)

FileUndo == FileAlive /\ ec.mode = MODE_NORMAL /\ FileKey(CTRL_Z)

FileSave ==
    /\ FileAlive
    /\ ec.mode = MODE_NORMAL
    /\ \E name_given, io_ok \in BOOLEAN :
           LET tried == ec.file_name # "" \/ name_given
           IN  /\ ec' = editor_scroll(file_save(ec, name_given, io_ok))
               /\ hist' = IF tried /\ io_ok THEN FileHist(LogicalText(ec.gb))
                          ELSE IF tried THEN FileFailed(hist.clean)
                          ELSE FileHist(hist.clean)

FileQuit ==
    /\ FileAlive
    /\ ec.mode = MODE_NORMAL
    /\ \E yes \in BOOLEAN :
           LET r == editor_quit(ec, yes)
           IN  /\ ec' = r.ec
               /\ hist' = [FileHist(hist.clean) EXCEPT !.asked = r.asked,
                                                       !.exited = r.exited]

FileBrowse ==
    /\ FileAlive
    /\ ec.mode = MODE_NORMAL
    /\ ec' = browser_enter(ec)
    /\ hist' = FileHist(hist.clean)

FileBrowseCancel == FileAlive /\ ec.mode = MODE_BROWSER /\ FileKey(ESC)

FileBrowseOpen ==
    /\ FileAlive
    /\ ec.mode = MODE_BROWSER
    /\ \E yes, name_given, io_ok \in BOOLEAN,
          content \in StringsUpTo(FileBytes, MaxFileLen) :
           LET saving == ec.modified /\ yes
               tried == saving /\ (ec.file_name # "" \/ name_given)
               opened == ~ec.modified \/ yes
           IN  /\ ec' = editor_scroll(
                            browser_open_selected(ec, yes, name_given, io_ok, content))
               /\ hist' = IF tried /\ ~io_ok
                          THEN FileFailed(IF opened THEN content ELSE hist.clean)
                          ELSE FileHist(IF opened THEN content ELSE hist.clean)

NextFile ==
    \/ FileType
    \/ FileUndo
    \/ FileSave
    \/ FileQuit
    \/ FileBrowse
    \/ FileBrowseCancel
    \/ FileBrowseOpen

SpecFile == InitFile /\ [][NextFile]_vars

-----------------------------------------------------------------------------
(* The row array under the keys that insert, join and remove rows, on      *)
(* files of up to three rows.  hist is the last key.                       *)

InitRows ==
    /\ ec \in {file_open(editor_init, "file", f) : f \in StringsUpTo(FileBytes, MaxRowsFileLen)}
    /\ hist = [key |-> 0]

RowsKey(c, j) ==
    /\ ec' = editor_scroll(editor_process_key(ec, c, j))
    /\ hist' = [key |-> c]

RowsCanEdit == Alive /\ ec.undo_stack.count < MaxRowsEdits

RowsMove ==
    Alive /\ \E c \in {ARROW_UP, ARROW_DOWN, ARROW_LEFT, ARROW_RIGHT} : RowsKey(c, 0)
RowsEnter == RowsCanEdit /\ \E j \in Junk : RowsKey(ENTER, j)
RowsBackspace == RowsCanEdit /\ \E j \in Junk : RowsKey(BACKSPACE, j)
RowsKill == RowsCanEdit /\ \E j \in Junk : RowsKey(CTRL_K, j)
RowsUndo == Alive /\ \E j \in Junk : RowsKey(CTRL_Z, j)

NextRows ==
    \/ RowsMove
    \/ RowsEnter
    \/ RowsBackspace
    \/ RowsKill
    \/ RowsUndo

SpecRows == InitRows /\ [][NextRows]_vars

-----------------------------------------------------------------------------
(* Multi-line comments: a C file made of a few lines that open, close or   *)
(* toggle a comment, under the keys that change and join rows.             *)

HlLines == {<<SLASH, STAR>>, <<SLASH, STAR, SLASH>>, <<97>>}

\* the bytes of a file with the given lines, each ended by '\n'
RECURSIVE HlFile(_)
HlFile(lines) ==
    IF lines = <<>> THEN <<>> ELSE lines[1] \o <<NL>> \o HlFile(Tail(lines))

InitHl ==
    /\ \E n \in 1 .. MaxHlRows : \E lines \in [1 .. n -> HlLines] :
           ec = file_open(editor_init, "file.c", HlFile(lines))
    /\ hist = [key |-> 0]

HlKey(c, j) ==
    /\ ec' = [editor_scroll(editor_process_key(ec, c, j)) EXCEPT !.hl = hl_none]
    /\ hist' = [key |-> c]

HlCanEdit == Alive /\ ec.undo_stack.count < MaxHlEdits

HlMove ==
    Alive /\ \E c \in {ARROW_UP, ARROW_DOWN, ARROW_LEFT, ARROW_RIGHT} : HlKey(c, 0)
HlType == HlCanEdit /\ \E c \in {SLASH, STAR}, j \in Junk : HlKey(c, j)
HlEnter == HlCanEdit /\ \E j \in Junk : HlKey(ENTER, j)
HlBackspace == HlCanEdit /\ \E j \in Junk : HlKey(BACKSPACE, j)
HlKill == HlCanEdit /\ \E j \in Junk : HlKey(CTRL_K, j)
HlUndo == Alive /\ \E j \in Junk : HlKey(CTRL_Z, j)

NextHl ==
    \/ HlMove
    \/ HlType
    \/ HlEnter
    \/ HlBackspace
    \/ HlKill
    \/ HlUndo

SpecHl == InitHl /\ [][NextHl]_vars

-----------------------------------------------------------------------------
(* The cursor on rows that hold a two-byte UTF-8 character (U+00E9, the    *)
(* bytes 195 169).  hist is the last key.                                  *)

UtfChar == <<195, 169>>
UtfLines == {UtfChar, <<97>>, <<97, 97>>, <<97>> \o UtfChar}

InitUtf ==
    /\ \E n \in 1 .. MaxUtfRows : \E lines \in [1 .. n -> UtfLines] :
           ec = file_open(editor_init, "file", HlFile(lines))
    /\ hist = [key |-> 0]

UtfKey(c, j) ==
    /\ ec' = editor_scroll(editor_process_key(ec, c, j))
    /\ hist' = [key |-> c]

UtfCanEdit == Alive /\ ec.undo_stack.count < MaxUtfEdits

UtfMove ==
    Alive /\ \E c \in {ARROW_UP, ARROW_DOWN, ARROW_LEFT, ARROW_RIGHT} : UtfKey(c, 0)
UtfHomeEnd == Alive /\ \E c \in {HOME_KEY, END_KEY} : UtfKey(c, 0)
UtfType ==
    /\ UtfCanEdit
    /\ \E j \in Junk :
           UtfKey(IF ec.utf8_buffer.bytes = <<>> THEN UtfChar[1] ELSE UtfChar[2], j)
UtfBackspace == UtfCanEdit /\ \E j \in Junk : UtfKey(BACKSPACE, j)
UtfUndo == Alive /\ \E j \in Junk : UtfKey(CTRL_Z, j)

NextUtf ==
    \/ UtfMove
    \/ UtfHomeEnd
    \/ UtfType
    \/ UtfBackspace
    \/ UtfUndo

SpecUtf == InitUtf /\ [][NextUtf]_vars

-----------------------------------------------------------------------------
(* Undo records per edit key: the edit keys of NORMAL mode with the braces *)
(* that move the indent level, and no undo, so that the count of the undo  *)
(* stack grows by the records a key pushes.  hist is the last key with the *)
(* text and the count before it.                                           *)

InitEdit ==
    /\ ec \in {file_open(editor_init, "file", f) : f \in StringsUpTo(FileBytes, MaxEditFileLen)}
    /\ hist = [key |-> 0, text |-> <<>>, n |-> 0]

EditKey(c, j) ==
    /\ ec' = editor_scroll(editor_process_key(ec, c, j))
    /\ hist' = [key |-> c, text |-> LogicalText(ec.gb), n |-> ec.undo_stack.count]

EditCanEdit == Alive /\ ~ec.gb.ub /\ ec.undo_stack.count < MaxEditOps

EditMove == Alive /\ \E c \in {ARROW_UP, ARROW_DOWN, ARROW_LEFT, ARROW_RIGHT} : EditKey(c, 0)
EditType == EditCanEdit /\ \E c \in {97, TAB} : \E j \in Junk : EditKey(c, j)
EditBraceOpen ==
    EditCanEdit /\ ec.indent_level < MaxIndent /\ \E j \in Junk : EditKey(LBRACE, j)
EditBraceClose ==
    EditCanEdit /\ ec.indent_level > -MaxIndent /\ \E j \in Junk : EditKey(RBRACE, j)
EditEnter == EditCanEdit /\ \E j \in Junk : EditKey(ENTER, j)
EditDelete == EditCanEdit /\ \E c \in {BACKSPACE, DEL_KEY} : \E j \in Junk : EditKey(c, j)
EditKill == EditCanEdit /\ \E j \in Junk : EditKey(CTRL_K, j)
EditPaste == EditCanEdit /\ \E j \in Junk : EditKey(CTRL_V, j)

NextEdit ==
    \/ EditMove
    \/ EditType
    \/ EditBraceOpen
    \/ EditBraceClose
    \/ EditEnter
    \/ EditDelete
    \/ EditKill
    \/ EditPaste

SpecEdit == InitEdit /\ [][NextEdit]_vars

-----------------------------------------------------------------------------
(* The scenario of tests/test-undo_redo.sh: End, then runs of characters   *)
(* typed at the end of the line, then presses of Ctrl-Z.  hist holds the   *)
(* text before the first run, the number of runs, the length of the run    *)
(* being typed and the number of undos pressed.                            *)

InitRun ==
    /\ ec \in {file_open(editor_init, "file", f) : f \in StringsUpTo(FileBytes, MaxFileLen)}
    /\ hist = [base |-> LogicalText(ec.gb), runs |-> 0, len |-> 0, undos |-> 0]

AtEndOfLine ==
    \/ NumRows(ec) = 0
    \/ ec.cursor_y < NumRows(ec) /\ ec.cursor_x = Len(ec.row[ec.cursor_y + 1].chars)

\* the End key sent before the first run
RunEnd ==
    /\ hist.runs = 0
    /\ ~AtEndOfLine
    /\ ec' = editor_scroll(editor_process_key(ec, END_KEY, 0))
    /\ UNCHANGED hist

\* the first character of a run
RunStart ==
    /\ Alive /\ hist.undos = 0 /\ AtEndOfLine
    /\ hist.runs < MaxRuns
    /\ hist.runs > 0 => hist.len >= 2
    /\ \E c \in TypedBytes : \E j \in Junk :
           ec' = editor_scroll(editor_process_key(ec, c, j))
    /\ hist' = [hist EXCEPT !.runs = @ + 1, !.len = 1]

\* a further character of the run being typed
RunType ==
    /\ Alive /\ hist.undos = 0
    /\ hist.runs > 0 /\ hist.len < MaxRunLen
    /\ \E c \in TypedBytes : \E j \in Junk :
           ec' = editor_scroll(editor_process_key(ec, c, j))
    /\ hist' = [hist EXCEPT !.len = @ + 1]

\* Ctrl-Z, once for each run at most
RunUndo ==
    /\ Alive /\ hist.len >= 2
    /\ hist.undos < hist.runs
    /\ \E j \in Junk : ec' = editor_scroll(editor_process_key(ec, CTRL_Z, j))
    /\ hist' = [hist EXCEPT !.undos = @ + 1]

NextRun ==
    \/ RunEnd
    \/ RunStart
    \/ RunType
    \/ RunUndo

SpecRun == InitRun /\ [][NextRun]_vars

-----------------------------------------------------------------------------
(* Marking: the keys of MODE_SELECT and Ctrl-X, on a small file.  hist is  *)
(* the last key with the mode, the selection, the text and the position in *)
(* the text of the start of the normalised selection before it.  A run    *)
(* ends with its first edit.                                               *)

InitSel ==
    /\ ec \in {file_open(editor_init, "file", f) : f \in StringsUpTo(FileBytes, MaxSelFileLen)}
    /\ hist = [key |-> 0, mode |-> MODE_NORMAL, sel |-> ec.selection,
               text |-> <<>>, start |-> 0]

SelKey(c, j) ==
    /\ ec' = editor_scroll(editor_process_key(ec, c, j))
    /\ hist' = [key |-> c, mode |-> ec.mode, sel |-> ec.selection,
                text |-> LogicalText(ec.gb),
                start |-> selection_pos(ec, selection_normal(ec.selection).start_x,
                                        selection_normal(ec.selection).start_y)]

SelCanEdit == Alive /\ ec.undo_stack.count < MaxSelEdits

SelMark == SelCanEdit /\ SelKey(CTRL_X, 0)
SelMove == SelCanEdit /\ \E c \in {ARROW_UP, ARROW_DOWN, ARROW_LEFT, ARROW_RIGHT} : SelKey(c, 0)
SelHomeEnd == SelCanEdit /\ \E c \in {HOME_KEY, END_KEY} : SelKey(c, 0)
SelPage == SelCanEdit /\ \E c \in {PAGE_UP, PAGE_DOWN} : SelKey(c, 0)
SelCancel == SelCanEdit /\ SelKey(ESC, 0)
SelCopy == SelCanEdit /\ SelKey(CTRL_C, 0)
SelCut == SelCanEdit /\ \E j \in Junk : SelKey(CTRL_K, j)
SelPaste == SelCanEdit /\ \E j \in Junk : SelKey(CTRL_V, j)
SelDelete == SelCanEdit /\ \E c \in {DEL_KEY, BACKSPACE} : \E j \in Junk : SelKey(c, j)
SelOther == SelCanEdit /\ \E c \in {97, ENTER} : \E j \in Junk : SelKey(c, j)

NextSel ==
    \/ SelMark
    \/ SelMove
    \/ SelHomeEnd
    \/ SelPage
    \/ SelCancel
    \/ SelCopy
    \/ SelCut
    \/ SelPaste
    \/ SelDelete
    \/ SelOther

SpecSel == InitSel /\ [][NextSel]_vars

-----------------------------------------------------------------------------
(* Search: Ctrl-F and the keys read by ui_prompt, on a file whose lines     *)
(* hold the letters of the queries behind a tab or a two-byte character,   *)
(* in a narrow window.  hist is the last key with the query, the row of    *)
(* the last match and the cursor row before it, and the view at the last   *)
(* Ctrl-F.                                                                 *)

SearchLines == {<<98>>, <<TAB, 97>>, UtfChar \o <<97>>}

View(e) ==
    [cursor_x |-> e.cursor_x, cursor_y |-> e.cursor_y,
     col_offset |-> e.col_offset, row_offset |-> e.row_offset,
     highlight |-> [k \in 1 .. NumRows(e) |-> Highlight(e, k - 1)]]

InitSearch ==
    /\ \E n \in 1 .. MaxSearchRows : \E lines \in [1 .. n -> SearchLines] :
           ec = [file_open(editor_init, "file", HlFile(lines))
                    EXCEPT !.screen_cols = term_update_cols(TRUE, SearchCols)]
    /\ hist = [key |-> 0, active |-> FALSE, buf |-> <<>>, last |-> -1, cy |-> 0,
               view |-> View(ec)]

SearchRecord(c, e) ==
    /\ ec' = editor_scroll(e)
    /\ hist' = [key |-> c, active |-> ec.prompt.active, buf |-> ec.prompt.buf,
                last |-> ec.search.last_match, cy |-> ec.cursor_y,
                view |-> IF c = CTRL_F THEN View(ec) ELSE hist.view]

\* a run also ends when an arrow key has been taken for a letter
InPrompt == Alive /\ ec.prompt.active /\ \A k \in DOMAIN ec.prompt.buf : ec.prompt.buf[k] < 128

\* a run ends when its search ends
BeforeSearch == Alive /\ ~ec.prompt.active /\ hist.key \notin {ENTER, ESC}

SearchMove ==
    /\ BeforeSearch
    /\ \E c \in {ARROW_DOWN, ARROW_RIGHT} : SearchRecord(c, editor_process_key(ec, c, 0))
SearchOpen ==
    /\ BeforeSearch
    /\ SearchRecord(CTRL_F, editor_process_key(ec, CTRL_F, 0))
SearchType ==
    /\ InPrompt /\ Len(ec.prompt.buf) < MaxQuery
    /\ SearchRecord(97, search_prompt_key(ec, 97, FALSE))
SearchArrow ==
    /\ InPrompt /\ Len(ec.prompt.buf) <= MaxQuery
    /\ \E c \in {ARROW_UP, ARROW_DOWN, ARROW_LEFT, ARROW_RIGHT} :
           \E printable \in BOOLEAN : SearchRecord(c, search_prompt_key(ec, c, printable))
SearchBackspace == InPrompt /\ SearchRecord(BACKSPACE, search_prompt_key(ec, BACKSPACE, FALSE))
SearchEnter == InPrompt /\ SearchRecord(ENTER, search_prompt_key(ec, ENTER, FALSE))
SearchEsc == InPrompt /\ SearchRecord(ESC, search_prompt_key(ec, ESC, FALSE))

NextSearch ==
    \/ SearchMove
    \/ SearchOpen
    \/ SearchType
    \/ SearchArrow
    \/ SearchBackspace
    \/ SearchEnter
    \/ SearchEsc

SpecSearch == InitSearch /\ [][NextSearch]_vars

-----------------------------------------------------------------------------
(* Paste: a region marked with Ctrl-X and the arrows, copied with Ctrl-C   *)
(* and pasted with Ctrl-V somewhere else.  hist is the last key with the   *)
(* text offset of the cursor as editor_paste validates it and the bytes    *)
(* of the copy buffer before the key.                                      *)

CursorOffset(e) == RowPos(e, e.cursor_y) + e.cursor_x

CopiedText(e) ==
    IF e.copied_char_buffer = <<>> THEN <<>> ELSE CStr(e.copied_char_buffer[1])

InitPaste ==
    /\ ec \in {file_open(editor_init, "file", f) : f \in StringsUpTo(FileBytes, MaxPasteFileLen)}
    /\ hist = [key |-> 0, pos |-> 0, copied |-> <<>>, count |-> 0]

PasteRecord(c, j) ==
    /\ ec' = editor_scroll(editor_process_key(ec, c, j))
    /\ hist' = [key |-> c, pos |-> CursorOffset(editor_paste_clamp(ec)),
                copied |-> CopiedText(ec), count |-> ec.undo_stack.count]

\* a run ends at its first paste
BeforePaste == Alive /\ hist.key # CTRL_V

PasteMark == BeforePaste /\ PasteRecord(CTRL_X, 0)
PasteMove ==
    /\ BeforePaste
    /\ \E c \in {ARROW_UP, ARROW_DOWN, ARROW_LEFT, ARROW_RIGHT} : PasteRecord(c, 0)
PasteCopy == BeforePaste /\ PasteRecord(CTRL_C, 0)
PasteText == BeforePaste /\ \E j \in Junk : PasteRecord(CTRL_V, j)

NextPaste ==
    \/ PasteMark
    \/ PasteMove
    \/ PasteCopy
    \/ PasteText

SpecPaste == InitPaste /\ [][NextPaste]_vars

-----------------------------------------------------------------------------
(* Joining lines: the arrows and Backspace on a file of a few short lines.  *)
(* hist is the last key with, for Backspace, the cursor, the rows and the  *)
(* text before it.                                                         *)

JoinBytes == {97, 98, NL}

InitJoin ==
    /\ ec \in {file_open(editor_init, "file", f) : f \in StringsUpTo(JoinBytes, MaxJoinFileLen)}
    /\ hist = [key |-> 0, cx |-> 0, cy |-> 0, rows |-> <<>>, text |-> <<>>]

JoinRecord(c, j) ==
    /\ ec' = editor_scroll(editor_process_key(ec, c, j))
    /\ hist' = IF c = BACKSPACE
               THEN [key |-> c, cx |-> ec.cursor_x, cy |-> ec.cursor_y,
                     rows |-> RowChars(ec), text |-> LogicalText(ec.gb)]
               ELSE [key |-> c, cx |-> 0, cy |-> 0, rows |-> <<>>, text |-> <<>>]

\* a run ends when its Backspaces have pushed MaxJoins undo records
BeforeJoin == Alive /\ ec.undo_stack.count < MaxJoins

JoinMove ==
    /\ BeforeJoin
    /\ \E c \in {ARROW_UP, ARROW_DOWN, ARROW_LEFT, ARROW_RIGHT} : JoinRecord(c, 0)
JoinBackspace == BeforeJoin /\ \E j \in Junk : JoinRecord(BACKSPACE, j)

NextJoin ==
    \/ JoinMove
    \/ JoinBackspace

SpecJoin == InitJoin /\ [][NextJoin]_vars

-----------------------------------------------------------------------------
(* The terminal and the signal handlers.  A terminal is [mode, orig, alt,  *)
(* atexit, exited]: the line discipline ("cooked" or "raw"), the termios   *)
(* saved in ec.orig_termios, whether the alternate screen buffer is shown,  *)
(* the number of term_disable_raw registered with atexit, and whether the  *)
(* process has ended.  tcgetattr and tcsetattr are taken to succeed; read  *)
(* and write may fail.                                                     *)

\* exit: the handlers registered with atexit run, each a term_disable_raw
term_exit(t) ==
    [t EXCEPT !.mode = IF t.atexit > 0 THEN t.orig ELSE t.mode, !.exited = TRUE]

\* panic: term_clear, perror, exit(1)
panic(t) == term_exit(t)

term_open_buffer(t, write_ok) ==
    IF write_ok THEN [t EXCEPT !.alt = TRUE] ELSE panic(t)

term_disable_raw(t) == [t EXCEPT !.mode = t.orig]

term_set_raw(t) == IF t.exited THEN t ELSE [t EXCEPT !.mode = "raw"]

term_enable_raw(t, write_ok) ==
    term_set_raw(term_open_buffer([t EXCEPT !.orig = t.mode,
                                            !.atexit = Min(t.atexit + 1, MaxAtexit)],
                                  write_ok))

term_close_buffer(t, write_ok) ==
    IF write_ok THEN [t EXCEPT !.alt = FALSE] ELSE panic(t)

\* the end of the CTRL_('q') case: term_clear, term_close_buffer,
\* editor_cleanup, exit(0)
term_quit(t, write_ok) ==
    IF write_ok THEN term_exit(term_close_buffer(t, TRUE))
    ELSE term_close_buffer(t, FALSE)

\* term_read_key: read gave -1 with an errno other than EAGAIN
term_read_error(t) == panic(t)

\* main up to its loop: the terminal of the shell, then term_enable_raw
term_main ==
    term_enable_raw([mode |-> "cooked", orig |-> "cooked", alt |-> FALSE,
                     atexit |-> 0, exited |-> FALSE],
                    TRUE)

\* sig_winch_handler up to its editor_refresh
sig_winch_resize(e) ==
    [e EXCEPT !.cursor_y = IF e.cursor_y > e.screen_rows THEN e.screen_rows - 1
                           ELSE e.cursor_y,
              !.cursor_x = IF e.cursor_x > e.screen_cols THEN e.screen_cols - 1
                           ELSE e.cursor_x]

sig_winch_handler(e, got_size, ws_row, ws_col) ==
    editor_scroll(sig_winch_resize([e EXCEPT !.screen_rows = term_update_size(got_size, ws_row),
                                             !.screen_cols = term_update_cols(got_size, ws_col)]))

\* sig_cont_handler: what it does to the terminal
sig_cont_term(t, write_ok) ==
    The({IF t1.exited THEN t1 ELSE term_enable_raw(t1, write_ok) :
            t1 \in {term_open_buffer(term_disable_raw(t), write_ok)}})

\* sig_cont_handler: what it does to the editor, its editor_refresh
sig_cont_handler(e) == editor_scroll(e)

(* hist is the terminal with the last event (a key, "SIGWINCH", "SIGCONT", *)
(* "read" for a failed read), the cursor, the rows and the gap buffer       *)
(* before it, and whether the event drew the screen (the write of           *)
(* editor_refresh) and allocated memory (its buf_append).                   *)

Untouched(e) ==
    [cursor_x |-> e.cursor_x, cursor_y |-> e.cursor_y, row |-> e.row, gb |-> e.gb]

InitTerm ==
    /\ ec \in {file_open(editor_init, "file", f) : f \in StringsUpTo(FileBytes, MaxTermFileLen)}
    /\ hist = [term |-> term_main, event |-> "", pre |-> Untouched(ec),
               drew |-> TRUE, allocated |-> TRUE]

TermRecord(e, t, event, drew) ==
    /\ ec' = e
    /\ hist' = [term |-> t, event |-> event, pre |-> Untouched(ec),
                drew |-> drew, allocated |-> drew]

Running == Alive /\ ~hist.term.exited

TermMove ==
    /\ Running
    /\ \E c \in {ARROW_UP, ARROW_DOWN, ARROW_LEFT, ARROW_RIGHT} :
           TermRecord(editor_scroll(editor_process_key(ec, c, 0)), hist.term, "key", TRUE)
TermType ==
    /\ Running /\ ec.undo_stack.count < 1
    /\ \E j \in Junk :
           TermRecord(editor_scroll(editor_process_key(ec, 97, j)), hist.term, "key", TRUE)
TermQuit ==
    /\ Running
    /\ \E yes, write_ok \in BOOLEAN :
           IF editor_quit(ec, yes).exited
           THEN TermRecord(editor_quit(ec, yes).ec, term_quit(hist.term, write_ok),
                           "quit", FALSE)
           ELSE TermRecord(editor_scroll(editor_quit(ec, yes).ec), hist.term, "key", TRUE)
TermReadError ==
    /\ Running
    /\ TermRecord(ec, term_read_error(hist.term), "read", FALSE)
TermWinch ==
    /\ Running
    /\ \E got_size \in BOOLEAN, ws_row \in {SmallRows, TermRows}, ws_col \in {SmallCols, TermCols} :
           TermRecord(sig_winch_handler(ec, got_size, ws_row, ws_col), hist.term,
                      "SIGWINCH", TRUE)
TermCont ==
    /\ Running
    /\ \E write_ok \in BOOLEAN :
           TermRecord(sig_cont_handler(ec), sig_cont_term(hist.term, write_ok), "SIGCONT",
                      ~sig_cont_term(hist.term, write_ok).exited)

NextTerm ==
    \/ TermMove
    \/ TermType
    \/ TermQuit
    \/ TermReadError
    \/ TermWinch
    \/ TermCont

SpecTerm == InitTerm /\ [][NextTerm]_vars

-----------------------------------------------------------------------------
(* Insertion into a full buffer.  file_open gives the gap buffer           *)
(* FILE_GAP_SIZE bytes, so a file of exactly that size leaves no gap and    *)
(* the first insertion has to grow the buffer; the realloc of gap_grow may *)
(* fail.  hist is the last key with the editor before it, the number of    *)
(* cursor keys so far and whether the realloc was given memory.            *)

FullFiles ==
    {[k \in 1 .. FILE_GAP_SIZE |-> 97],
     [k \in 1 .. FILE_GAP_SIZE |-> IF k = FILE_GAP_SIZE THEN NL ELSE 97],
     [k \in 1 .. FILE_GAP_SIZE |-> IF k = 2 THEN NL ELSE 97]}

InitOom ==
    /\ ec \in {file_open(editor_init, "file", f) : f \in FullFiles}
    /\ hist = [key |-> 0, pre |-> ec, moves |-> 0, alloc_ok |-> TRUE]

OomMove ==
    /\ Alive /\ hist.key \in {0, ARROW_DOWN, ARROW_RIGHT} /\ hist.moves < MaxOomMoves
    /\ \E c \in {ARROW_DOWN, ARROW_RIGHT} :
           /\ ec' = editor_scroll(editor_process_key(ec, c, 0))
           /\ hist' = [key |-> c, pre |-> ec', moves |-> hist.moves + 1, alloc_ok |-> TRUE]

\* a letter typed in NORMAL mode: the default case of editor_process_key
OomType ==
    /\ Alive /\ hist.key \in {0, ARROW_DOWN, ARROW_RIGHT}
    /\ \E j \in Junk, alloc_ok \in BOOLEAN :
           /\ ec' = editor_scroll(editor_insert_char_mem(ec, 97, j, alloc_ok))
           /\ hist' = [key |-> 97, pre |-> ec, moves |-> hist.moves, alloc_ok |-> alloc_ok]

NextOom ==
    \/ OomMove
    \/ OomType

SpecOom == InitOom /\ [][NextOom]_vars

-----------------------------------------------------------------------------
(* Bytes that start no UTF-8 sequence, typed with no sequence pending.     *)
(* term_read_key returns a char, so a byte above 127 arrives as itself     *)
(* where char is unsigned and 256 less where it is signed.  hist is the    *)
(* last key with the text and the cursor before it.                        *)

StrayBytes == {128, 191, 248, 255}

InitStray ==
    /\ \E n \in 1 .. MaxStrayRows : \E lines \in [1 .. n -> UtfLines] :
           ec = file_open(editor_init, "file", HlFile(lines))
    /\ hist = [key |-> 0, text |-> <<>>, pos |-> 0, cursor_x |-> 0]

StrayRecord(c, j) ==
    /\ ec' = editor_scroll(editor_process_key(ec, c, j))
    /\ hist' = [key |-> c, text |-> LogicalText(ec.gb), pos |-> CursorOffset(ec),
                cursor_x |-> ec.cursor_x]

\* a run ends at its first stray byte
BeforeStray == Alive /\ hist.key % 256 \notin StrayBytes

StrayMove ==
    /\ BeforeStray
    /\ \E c \in {ARROW_UP, ARROW_DOWN, ARROW_LEFT, ARROW_RIGHT} : StrayRecord(c, 0)
StrayType ==
    /\ BeforeStray
    /\ \E byte \in StrayBytes, char_signed \in BOOLEAN, j \in Junk :
           StrayRecord(IF char_signed THEN byte - 256 ELSE byte, j)

NextStray ==
    \/ StrayMove
    \/ StrayType

SpecStray == InitStray /\ [][NextStray]_vars

-----------------------------------------------------------------------------
(* Line endings: main opens the file named on the command line, a file of  *)
(* letters, carriage returns and newlines.  hist is the content of the     *)
(* file and whether it has been opened.                                    *)

CrlfBytes == {97, CR, NL}

InitCrlf ==
    /\ ec = editor_init
    /\ hist \in {[content |-> f, opened |-> FALSE] : f \in StringsUpTo(CrlfBytes, MaxCrlfFileLen)}

CrlfOpen ==
    /\ ~hist.opened
    /\ ec' = editor_scroll(file_open(ec, "file", hist.content))
    /\ hist' = [hist EXCEPT !.opened = TRUE]
CrlfMove ==
    /\ hist.opened /\ Alive
    /\ \E c \in {ARROW_DOWN, ARROW_RIGHT} : ec' = editor_scroll(editor_process_key(ec, c, 0))
    /\ UNCHANGED hist

NextCrlf ==
    \/ CrlfOpen
    \/ CrlfMove

SpecCrlf == InitCrlf /\ [][NextCrlf]_vars

-----------------------------------------------------------------------------
(* Save and load again: main opens a file of letters, carriage returns and *)
(* newlines, the cursor is moved and a key that may edit is pressed (the   *)
(* key 10 is Ctrl-J), the file is saved                                    *)
(* and the saved file is opened.  hist holds the bytes of the file when it *)
(* was opened (original) and now (disk), the number of keys that may have  *)
(* edited, whether the last step ran a save (tried), whether that save     *)
(* succeeded (saved), the rows at that save, and whether the last step     *)
(* opened the saved file (loaded).                                         *)

TripBytes == {97, CR, NL}
TripKeys == {97, NL}

InitTrip ==
    \E f \in StringsUpTo(TripBytes, MaxTripFileLen) :
        /\ ec = editor_scroll(file_open(editor_init, "file", f))
        /\ hist = [original |-> f, disk |-> f, edits |-> 0, tried |-> FALSE,
                   saved |-> FALSE, rows |-> <<>>, loaded |-> FALSE]

BeforeTrip == Alive /\ ~hist.tried /\ ~hist.loaded

TripMove ==
    /\ BeforeTrip
    /\ \E c \in {ARROW_DOWN, ARROW_RIGHT} :
           ec' = editor_scroll(editor_process_key(ec, c, 0))
    /\ UNCHANGED hist

TripEdit(c, j) ==
    /\ BeforeTrip
    /\ hist.edits < MaxTripEdits
    /\ ec' = editor_scroll(editor_process_key(ec, c, j))
    /\ hist' = [hist EXCEPT !.edits = hist.edits + 1]

TripType == \E c \in TripKeys, j \in Junk : TripEdit(c, j)
TripEnter == \E j \in Junk : TripEdit(ENTER, j)
TripBackspace == \E j \in Junk : TripEdit(BACKSPACE, j)

TripSave ==
    /\ BeforeTrip
    /\ \E open_ok, truncate_ok \in BOOLEAN,
          written \in 0 .. Len(file_rows_to_string(ec.row)) :
           LET io_ok == open_ok /\ truncate_ok
                            /\ written = Len(file_rows_to_string(ec.row))
           IN  /\ ec' = editor_scroll(file_save(ec, TRUE, io_ok))
               /\ hist' = [hist EXCEPT
                               !.disk = file_save_disk(ec, hist.disk, open_ok,
                                                       truncate_ok, written),
                               !.tried = TRUE,
                               !.saved = io_ok,
                               !.rows = RowChars(ec)]

TripLoad ==
    /\ Alive
    /\ hist.saved
    /\ ~hist.loaded
    /\ ec' = editor_scroll(file_open(ec, ec.file_name, hist.disk))
    /\ hist' = [hist EXCEPT !.tried = FALSE, !.loaded = TRUE]

NextTrip ==
    \/ TripMove
    \/ TripType
    \/ TripEnter
    \/ TripBackspace
    \/ TripSave
    \/ TripLoad

SpecTrip == InitTrip /\ [][NextTrip]_vars

-----------------------------------------------------------------------------
(* The word "hello" with an e acute: the editor is started without a file, *)
(* the six bytes of the word are typed, then cursor keys are pressed and   *)
(* the window is resized.  hist.typed counts the bytes typed; hist.from is *)
(* cursor_x before the first of the left arrows pressed in a row on row 0  *)
(* (-1 when the run did not start on row 0) and hist.lefts the value of    *)
(* cursor_x after each of them.                                            *)

Word == <<104, 195, 169, 108, 108, 111>>
HelloCols == {SmallCols, 3, TermCols}

HelloRun(e) == [typed |-> hist.typed,
                from |-> IF e.cursor_y = 0 THEN e.cursor_x ELSE -1,
                lefts |-> <<>>]

InitHello ==
    /\ ec = editor_init
    /\ hist = [typed |-> 0, from |-> 0, lefts |-> <<>>]

HelloType ==
    /\ Alive
    /\ hist.typed < Len(Word)
    /\ \E j \in Junk :
           ec' = editor_scroll(editor_process_key(ec, Word[hist.typed + 1], j))
    /\ hist' = [HelloRun(ec') EXCEPT !.typed = hist.typed + 1]

HelloLeft ==
    /\ Alive
    /\ hist.typed = Len(Word)
    /\ Len(hist.lefts) < MaxLefts
    /\ ec' = editor_scroll(editor_process_key(ec, ARROW_LEFT, 0))
    /\ hist' = [hist EXCEPT !.lefts = Append(hist.lefts, ec'.cursor_x)]

HelloOther ==
    /\ Alive
    /\ hist.typed = Len(Word)
    /\ \E c \in {ARROW_RIGHT, ARROW_UP, ARROW_DOWN, HOME_KEY, END_KEY} :
           ec' = editor_scroll(editor_process_key(ec, c, 0))
    /\ hist' = HelloRun(ec')

HelloWinch ==
    /\ Alive
    /\ \E ws_col \in HelloCols : ec' = sig_winch_handler(ec, TRUE, TermRows, ws_col)
    /\ hist' = HelloRun(ec')

NextHello ==
    \/ HelloType
    \/ HelloLeft
    \/ HelloOther
    \/ HelloWinch

SpecHello == InitHello /\ [][NextHello]_vars

-----------------------------------------------------------------------------
(* One character back and one forward: main opens a file of one line of    *)
(* letters, lead bytes and continuation bytes, more such bytes are typed,  *)
(* and from a character boundary s > 0 of the row utf8_prev_char and then  *)
(* utf8_next_char are applied.  hist holds s, the offset utf8_prev_char    *)
(* gave (back) and the offset utf8_next_char gave from there (forth).      *)

StepBytes == {97, 128, 169, 195}

\* s is within the row and the byte at s is no continuation byte
IsBoundary(chars, s) ==
    /\ 0 <= s
    /\ s <= Len(chars)
    /\ s < Len(chars) => ~is_utf8_continuation(chars[s + 1])

StepHist(stepped, s, back, forth) ==
    [stepped |-> stepped, s |-> s, back |-> back, forth |-> forth]

InitStep ==
    \E f \in StringsUpTo(StepBytes, MaxStepLen) :
        /\ ec = editor_scroll(file_open(editor_init, "file", f))
        /\ hist = StepHist(FALSE, 0, 0, 0)

StepMove ==
    /\ Alive
    /\ \E c \in {ARROW_LEFT, ARROW_RIGHT, END_KEY} :
           ec' = editor_scroll(editor_process_key(ec, c, 0))
    /\ hist' = StepHist(FALSE, 0, 0, 0)

StepType ==
    /\ Alive
    /\ gap_length(ec.gb) + Len(ec.utf8_buffer.bytes) < MaxStepLen
    /\ \E c \in StepBytes, j \in Junk :
           ec' = editor_scroll(editor_process_key(ec, c, j))
    /\ hist' = StepHist(FALSE, 0, 0, 0)

StepBackForth ==
    /\ Alive
    /\ NumRows(ec) = 1
    /\ \E s \in 1 .. Len(ec.row[1].chars) :
           /\ IsBoundary(ec.row[1].chars, s)
           /\ hist' = StepHist(TRUE, s, utf8_prev_char(ec.row[1].chars, s),
                               utf8_next_char(ec.row[1].chars,
                                              utf8_prev_char(ec.row[1].chars, s)))
    /\ UNCHANGED ec

NextStep ==
    \/ StepMove
    \/ StepType
    \/ StepBackForth

SpecStep == InitStep /\ [][NextStep]_vars

-----------------------------------------------------------------------------
(* Re-highlighting: main opens a C file of lines that open a comment, open *)
(* and close one, or do neither, and keys are pressed.  The count of the   *)
(* rows scanned (ec.hl) is reset before every key, so that after the key   *)
(* it is the count for that key.                                           *)

InitScan ==
    \E n \in 1 .. MaxScanRows : \E lines \in [1 .. n -> HlLines] :
        /\ ec = file_open(editor_init, "file.c", HlFile(lines))
        /\ hist = [key |-> 0]

ScanKey(c, j) ==
    /\ ec' = editor_scroll(editor_process_key([ec EXCEPT !.hl = hl_none], c, j))
    /\ UNCHANGED hist

ScanCanEdit == Alive /\ ec.undo_stack.count < MaxScanEdits

ScanMove ==
    Alive /\ \E c \in {ARROW_DOWN, ARROW_RIGHT} : ScanKey(c, 0)
ScanType == ScanCanEdit /\ \E c \in {SLASH, STAR}, j \in Junk : ScanKey(c, j)
ScanEnter == ScanCanEdit /\ \E j \in Junk : ScanKey(ENTER, j)
ScanBackspace == ScanCanEdit /\ \E j \in Junk : ScanKey(BACKSPACE, j)
ScanKill == ScanCanEdit /\ \E j \in Junk : ScanKey(CTRL_K, j)

NextScan ==
    \/ ScanMove
    \/ ScanType
    \/ ScanEnter
    \/ ScanBackspace
    \/ ScanKill

SpecScan == InitScan /\ [][NextScan]_vars

-----------------------------------------------------------------------------
(* Undoing a run of new edits: the editor is started without a file; an    *)
(* earlier history of characters typed, undos and redos is followed by a   *)
(* run of at most MAX_UNDO_LEVELS characters typed, and then by as many    *)
(* undos.  hist holds the phase, the number of keys of the earlier         *)
(* history, the text before the run (base), the length of the run, the     *)
(* number of undos pressed after it and whether each of them reported      *)
(* success (done).                                                         *)

InitAgain ==
    /\ ec = editor_init
    /\ hist = [phase |-> "earlier", keys |-> 0, base |-> <<>>, run |-> 0,
               undos |-> 0, done |-> TRUE]

AgainEarlier ==
    /\ Alive
    /\ hist.phase = "earlier"
    /\ hist.keys < MaxEarlier
    /\ \E c \in TypedBytes \cup {CTRL_Z, CTRL_R} :
           ec' = editor_scroll(editor_process_key(ec, c, 0))
    /\ hist' = [hist EXCEPT !.keys = @ + 1, !.base = LogicalText(ec'.gb)]

AgainType ==
    /\ Alive
    /\ hist.phase \in {"earlier", "run"}
    /\ hist.run < MAX_UNDO_LEVELS
    /\ \E c \in TypedBytes : ec' = editor_scroll(editor_process_key(ec, c, 0))
    /\ hist' = [hist EXCEPT !.phase = "run", !.run = @ + 1]

AgainUndo ==
    /\ Alive
    /\ hist.phase \in {"run", "undo"}
    /\ hist.undos < hist.run
    /\ ec' = editor_scroll(editor_process_key(ec, CTRL_Z, 0))
    /\ hist' = [hist EXCEPT !.phase = "undo", !.undos = @ + 1,
                            !.done = @ /\ ec'.status_msg = "Undo performed"]

NextAgain ==
    \/ AgainEarlier
    \/ AgainType
    \/ AgainUndo

SpecAgain == InitAgain /\ [][NextAgain]_vars

-----------------------------------------------------------------------------
(* Properties *)

\* the rows joined with a '\n' between consecutive rows
RECURSIVE JoinRows(_)
JoinRows(rows) ==
    IF rows = <<>> THEN <<>>
    ELSE IF Len(rows) = 1 THEN rows[1]
    ELSE rows[1] \o <<NL>> \o JoinRows(Tail(rows))

\* C1: after every key that recorded an edit, the row cache (the number of
\* rows and the bytes of each) is what rebuilding the rows from the gap
\* buffer's logical text gives.
C1_RowsAreRebuild ==
    (Alive /\ hist.pushed) => RowChars(ec) = SyncLines(LogicalText(ec.gb))

\* C2: in every reachable state the rows joined with '\n' are the gap
\* buffer's logical text, up to one trailing newline.
C2_RowsJoinToText ==
    Alive =>
        LET joined == JoinRows(RowChars(ec))
            text == LogicalText(ec.gb)
        IN  \/ joined = text
            \/ joined \o <<NL>> = text
            \/ joined = text \o <<NL>>

\* C3: an undo pressed right after a key that recorded an edit leaves the
\* logical text as it was just before that edit.
C3_UndoRestoresText == hist.undid => LogicalText(ec.gb) = hist.base

\* C4: after every gap-buffer operation the editor issues,
\* buffer <= gap <= egap <= ebuffer.
C4_AnchorsOrdered ==
    0 <= ec.gb.gap /\ ec.gb.gap <= ec.gb.egap /\ ec.gb.egap <= ec.gb.size

\* C7: an edit, then undo, then redo: the logical text is again what it
\* was right after the edit.
C7_RedoRestoresText == hist.redid => LogicalText(ec.gb) = hist.base

\* C5: for every position of the gap and every pos with 0 <= pos < length,
\* gap_get_char(pos) is the byte at index pos of the logical text.
C5_GetCharReadsText ==
    \A pos \in 0 .. gap_length(ec.gb) - 1, j \in Junk :
        gap_get_char(ec.gb, pos, j) = LogicalText(ec.gb)[pos + 1]

\* C6: under any interleaving of gap moves, insertions and deletions at
\* positions 0 <= pos <= length, the logical text is the plain byte
\* sequence to which the same insertions and deletions were applied.
C6_TextIsSequence == LogicalText(ec.gb) = hist.ref

\* a grown buffer holding a text of full length with the gap inside it
C6_Witness ==
    /\ Len(hist.ref) = MaxGapLen
    /\ ec.gb.size > MaxInitSize
    /\ 0 < ec.gb.gap
    /\ ec.gb.egap < ec.gb.size
    /\ \E k \in 1 .. Len(hist.ref) : hist.ref[k] = NL
    /\ \E k \in 1 .. Len(hist.ref) : hist.ref[k] # NL

\* C8: a redo pressed right after a key that recorded an edit reports
\* that there is nothing to redo and changes nothing.
C8_NoRedoAfterEdit ==
    hist.fresh =>
        /\ ec.status_msg = "Nothing to redo"
        /\ LogicalText(ec.gb) = hist.pre
        /\ ~ec.undo_stack.ub

\* C9: after any push, current refers to a live record of the list, and
\* the count is within max_undos.
C9_CurrentIsLive ==
    hist.pushed =>
        /\ ec.undo_stack.current \in 1 .. Len(ec.undo_stack.list)
        /\ ec.undo_stack.count <= ec.undo_stack.max_undos

\* C10 as stated: after the MaxTyped insertions every one of MaxTyped
\* undos reports success, the last leaves the buffer empty, and the next
\* reports that there is nothing to undo.
C10_AllUndone ==
    /\ hist.undos \in 1 .. MaxTyped => ec.status_msg = "Undo performed"
    /\ hist.undos = MaxTyped => gap_length(ec.gb) = 0
    /\ hist.undos = MaxTyped + 1 => ec.status_msg = "Nothing to undo"

\* C10: after the MaxTyped insertions the history holds the newest
\* MAX_UNDO_LEVELS of them: that many undos report success, each taking one
\* character away, and every later undo reports that there is nothing to
\* undo and leaves the characters whose records were evicted.
C10_UndoneToLimit ==
    LET kept == Min(MaxTyped, MAX_UNDO_LEVELS)
    IN  /\ hist.undos \in 1 .. kept =>
               /\ ec.status_msg = "Undo performed"
               /\ gap_length(ec.gb) = MaxTyped - hist.undos
        /\ hist.undos > kept =>
               /\ ec.status_msg = "Nothing to undo"
               /\ gap_length(ec.gb) = MaxTyped - kept

\* the undo after the last one that succeeded, with characters left
C10_Witness ==
    /\ hist.typed = MaxTyped
    /\ hist.undos = MAX_UNDO_LEVELS + 1
    /\ ec.status_msg = "Nothing to undo"
    /\ gap_length(ec.gb) > 0

\* C11: Ctrl-Q ends the editor without asking only when the text is what
\* was last loaded or saved.
C11_QuitAsksWhenChanged ==
    (hist.exited /\ ~hist.asked) => LogicalText(ec.gb) = hist.clean

\* C12: after a step in which a save failed, the text and the rows are
\* what they were before it, the modified flag is unchanged and the status
\* message carries the error.
C12_FailedSaveKeepsData ==
    hist.failed =>
        /\ LogicalText(ec.gb) = hist.pre
        /\ RowChars(ec) = hist.rows
        /\ ec.modified = hist.was
        /\ ec.status_msg = "Error"

\* C13: in every reachable state rows[i].idx = i for every row i.
C13_RowIdxIsIndex ==
    Alive => \A k \in 1 .. NumRows(ec) : ec.row[k].idx = k - 1

\* C14: after every edit each row's hl_open_comment is the value a scan of
\* the whole file from row 0 gives it.
C14_OpenCommentIsRescan ==
    Alive =>
        \A k \in 1 .. NumRows(ec) :
            ec.row[k].hl_open_comment
                = BuildRows(ec.syntax, RowChars(ec))[k].hl_open_comment

\* C15: whenever the cursor is on a row, cursor_x is a UTF-8 character
\* boundary of that row: it is within the row and the byte at it is no
\* continuation byte.
C15_CursorOnBoundary ==
    (Alive /\ ec.cursor_y < NumRows(ec)) =>
        LET chars == ec.row[ec.cursor_y + 1].chars
        IN  /\ 0 <= ec.cursor_x
            /\ ec.cursor_x <= Len(chars)
            /\ ec.cursor_x < Len(chars) => ~is_utf8_continuation(chars[ec.cursor_x + 1])

\* C16: an edit key that changes the text pushes exactly one undo record,
\* and an edit key that leaves the text as it was pushes none.
C16_OneRecordPerEdit ==
    (Alive /\ hist.key \in {97, TAB, LBRACE, RBRACE, ENTER, BACKSPACE, DEL_KEY, CTRL_K, CTRL_V}) =>
        ec.undo_stack.count
            = hist.n + (IF LogicalText(ec.gb) # hist.text THEN 1 ELSE 0)

\* C17: after runs of several characters typed at the end of a line and as
\* many presses of Ctrl-Z as there were runs, the text is what it was before
\* the first run.
C17_UndoRestoresRuns ==
    (Alive /\ hist.runs > 0 /\ hist.undos = hist.runs) => LogicalText(ec.gb) = hist.base

\* C18: after a cut in SELECT mode the text is the text before with a range
\* taken out at the start of the normalised selection, and when bytes were
\* taken out the paste buffer holds exactly those bytes.
C18_CutIsCopyThenDelete ==
    (Alive /\ hist.key = CTRL_K /\ hist.mode = MODE_SELECT) =>
        LET removed == Len(hist.text) - Len(LogicalText(ec.gb))
        IN  /\ removed >= 0
            /\ LogicalText(ec.gb)
                   = Take(hist.text, hist.start) \o Drop(hist.text, hist.start + removed)
            /\ removed > 0 =>
                   ec.copied_char_buffer
                       = <<SubSeq(hist.text, hist.start + 1, hist.start + removed)>>

\* C19: Ctrl-X pressed in NORMAL mode enters SELECT mode with the anchor at
\* the cursor; pressed in SELECT mode it leaves the editor in NORMAL mode.
C19_CtrlXToggles ==
    (Alive /\ hist.key = CTRL_X) =>
        /\ hist.mode = MODE_NORMAL =>
               /\ ec.mode = MODE_SELECT
               /\ ec.selection.active
               /\ ec.selection.start_x = ec.cursor_x
               /\ ec.selection.start_y = ec.cursor_y
        /\ hist.mode = MODE_SELECT => ec.mode = MODE_NORMAL

\* C20: a key pressed in SELECT mode that is neither a motion key nor a
\* selection command leaves the editor in NORMAL mode with the coordinates
\* of the selection as they were before the key.
C20_OtherKeyKeepsRegion ==
    (Alive /\ hist.mode = MODE_SELECT /\ hist.key \in {CTRL_X, ENTER, 97}) =>
        /\ ec.mode = MODE_NORMAL
        /\ ec.selection.start_x = hist.sel.start_x
        /\ ec.selection.start_y = hist.sel.start_y
        /\ ec.selection.end_x = hist.sel.end_x
        /\ ec.selection.end_y = hist.sel.end_y

\* the rows whose render holds the query q
MatchRows(q) == {y \in 0 .. NumRows(ec) - 1 : strstr(Render(ec.row[y + 1].chars), q) >= 0}

\* the matching row after row y in increasing order, the first one after
\* the last
NextMatch(q, y) ==
    IF \E m \in MatchRows(q) : m > y
    THEN CHOOSE m \in MatchRows(q) : m > y /\ \A k \in MatchRows(q) : k > y => m <= k
    ELSE CHOOSE m \in MatchRows(q) : \A k \in MatchRows(q) : m <= k

\* the matching row before row y, the last one before the first
PrevMatch(q, y) ==
    IF \E m \in MatchRows(q) : m < y
    THEN CHOOSE m \in MatchRows(q) : m < y /\ \A k \in MatchRows(q) : k < y => m >= k
    ELSE CHOOSE m \in MatchRows(q) : \A k \in MatchRows(q) : m >= k

C22_EscRestoresView ==
    (Alive /\ hist.active /\ hist.key = ESC) => View(ec) = hist.view

\* Esc after a hit that had moved the cursor to another row
C22_Witness ==
    /\ Alive /\ hist.active /\ hist.key = ESC
    /\ hist.last # -1 /\ hist.cy # ec.cursor_y

\* C23: after a search step that found the query, the cursor is on the row
\* of the match and the bytes of the row from cursor_x on begin with the
\* query.
C23_CursorAtMatch ==
    (Alive /\ ec.prompt.active /\ ec.search.saved_hightlight # <<>>) =>
        /\ ec.cursor_y = ec.search.last_match
        /\ Drop(Take(ec.row[ec.cursor_y + 1].chars, ec.cursor_x + Len(ec.prompt.buf)),
                ec.cursor_x) = ec.prompt.buf


\* C24: after a paste of n > 0 bytes with the cursor at text offset p the
\* cursor is at the row and column of text offset p + n.
C24_CursorAfterPaste ==
    (/\ Alive /\ hist.key = CTRL_V /\ hist.copied # <<>>
     /\ ec.undo_stack.count = hist.count + 1) =>
        CursorOffset(ec) = hist.pos + Len(hist.copied)


\* the sequence q without its k-th element
Without(q, k) == SubSeq(q, 1, k - 1) \o SubSeq(q, k + 1, Len(q))

\* rows r and r + 1 (1-based) of rows made one
Joined(rows, r) ==
    [k \in 1 .. Len(rows) - 1 |->
        IF k < r THEN rows[k] ELSE IF k = r THEN rows[r] \o rows[r + 1] ELSE rows[k + 1]]

C26_HandlersOnlyFlag ==
    (Alive /\ hist.event \in {"SIGWINCH", "SIGCONT"}) =>
        /\ Untouched(ec) = hist.pre
        /\ ~hist.drew
        /\ ~hist.allocated

\* C27: once the process has ended the terminal is in cooked mode and
\* shows the primary screen buffer.
C27_ExitRestoresTerminal ==
    hist.term.exited => hist.term.mode = "cooked" /\ ~hist.term.alt


\* C28: when the buffer cannot grow for an insertion, the text, the rows,
\* the cursor, the undo history and the modified flag stay as they were
\* and a status message tells of the failure.
C28_FailedInsertReported ==
    (Alive /\ hist.key = 97 /\ ~hist.alloc_ok) =>
        /\ LogicalText(ec.gb) = LogicalText(hist.pre.gb)
        /\ ec.row = hist.pre.row
        /\ ec.cursor_x = hist.pre.cursor_x /\ ec.cursor_y = hist.pre.cursor_y
        /\ ec.undo_stack = hist.pre.undo_stack
        /\ ec.modified = hist.pre.modified
        /\ ec.status_msg # hist.pre.status_msg


\* C29: a typed byte that starts no UTF-8 sequence is put into the text
\* at the cursor as it is, and the cursor moves one byte on.
C29_StrayByteInserted ==
    (Alive /\ hist.key % 256 \in StrayBytes) =>
        /\ LogicalText(ec.gb)
              = Take(hist.text, hist.pos) \o <<hist.key % 256>> \o Drop(hist.text, hist.pos)
        /\ ec.cursor_x = hist.cursor_x + 1


\* whether the k-th line of the content t ends with "\r\n"
EndsCrLf(t, k) ==
    /\ k \in 1 .. Len(SplitLines(t))
    /\ k < Len(SplitLines(t)) \/ t[Len(t)] = NL
    /\ SplitLines(t)[k] # <<>>
    /\ SplitLines(t)[k][Len(SplitLines(t)[k])] = CR

\* C30: the row of a line that ends with "\r\n" holds no newline and does
\* not end with a carriage return.
C30_CrLfStripped ==
    hist.opened =>
        \A k \in 1 .. NumRows(ec) :
            EndsCrLf(hist.content, k) =>
                /\ \A i \in 1 .. Len(ec.row[k].chars) : ec.row[k].chars[i] # NL
                /\ \/ ec.row[k].chars = <<>>
                   \/ ec.row[k].chars[Len(ec.row[k].chars)] # CR

\* C31: when the row cache has been saved and the saved file is then opened,
\* the rows are, byte for byte, the rows that were saved.
C31_LoadOfSaveIsRows == hist.loaded => RowChars(ec) = hist.rows

\* C32: after a save of a file that was opened with a newline as its last
\* byte and that no key has edited since, the file holds exactly the bytes
\* it had when it was opened.
C32_SaveUnchangedKeepsBytes ==
    (/\ hist.tried
     /\ hist.edits = 0
     /\ hist.original # <<>>
     /\ hist.original[Len(hist.original)] = NL)
        => hist.disk = hist.original

\* a file of two lines was opened, the cursor moved and the save succeeded
C32_Witness ==
    /\ hist.tried
    /\ hist.saved
    /\ hist.edits = 0
    /\ Len(hist.original) = 3
    /\ hist.original[Len(hist.original)] = NL
    /\ NumRows(ec) = 2
    /\ ec.cursor_y = 1

\* the sum of the sizes of the rows
RECURSIVE RowSizes(_)
RowSizes(rows) ==
    IF rows = <<>> THEN 0 ELSE Len(rows[1].chars) + RowSizes(Tail(rows))

\* C33: in every reachable state with at least one row, right after the
\* file was loaded and after every key, the gap buffer's logical length is
\* the sum of the row sizes plus num_rows - 1.
C33_LengthIsRowSizes ==
    (Alive /\ NumRows(ec) >= 1)
        => gap_length(ec.gb) = RowSizes(ec.row) + NumRows(ec) - 1

\* the values of cursor_x after the first left arrows are the first of cxs,
\* and 0 after any further one
LeftsAre(cxs) ==
    \A i \in 1 .. Len(hist.lefts) :
        hist.lefts[i] = IF i <= Len(cxs) THEN cxs[i] ELSE 0

\* the row is the word and a run of left arrows began behind its last byte
AfterWord ==
    /\ hist.typed = Len(Word)
    /\ RowChars(ec) = <<Word>>
    /\ hist.from = Len(Word)

\* C34: the six bytes typed and the cursor after the last of them, the
\* left arrows pressed in a row give cursor_x 5, 4, 3, 1, 0: the two bytes
\* of the e acute are crossed in one step and the fifth press reaches
\* column 0.
C34_LeftsCrossAcute ==
    AfterWord => LeftsAre(<<5, 4, 3, 1, 0>>)

\* C34 as stated: the values are 5, 4, 2, 1, 0
C34_LeftsAsStated ==
    AfterWord => LeftsAre(<<5, 4, 2, 1, 0>>)

\* five left arrows were pressed from the end of the word and the cursor
\* is in column 0
C34_Witness ==
    /\ AfterWord
    /\ Len(hist.lefts) = 5
    /\ ec.cursor_x = 0

\* C35: for every row the editor holds and every character boundary s > 0
\* of it, utf8_next_char applied to what utf8_prev_char gives from s is s.
C35_NextOfPrev == hist.stepped => hist.forth = hist.s

\* C36: for every row, render_size (the number of bytes row_update puts
\* into render) is the sum of the display widths of the row's characters
\* plus the columns that expanding its tabs adds, which is the column
\* row_cursorx_to_renderx gives for the end of the row.
C36_RenderSizeIsWidth ==
    Alive =>
        \A y \in 1 .. NumRows(ec) :
            Len(Render(ec.row[y].chars))
                = row_cursorx_to_renderx(ec.row[y].chars, Len(ec.row[y].chars))

\* C37: a re-highlight ends: it goes on to the next row only from a row
\* whose hl_open_comment changed, and it scans at most as many rows as the
\* file has.
C37_HaltsAtUnchanged == Alive => ec.hl.ok

\* C37 as stated: the rows scanned for one key are at most num_rows
C37_AtMostNumRows == Alive => ec.hl.count <= NumRows(ec)

\* the one re-highlight of a key went from the first row of a file of two
\* rows to its last, which changed too
C37_Witness ==
    /\ Alive
    /\ NumRows(ec) = 2
    /\ ec.hl.chain = 2
    /\ ec.hl.count = 2
    /\ ec.hl.live

\* C38: in every reachable state the undo history holds at most
\* MAX_UNDO_LEVELS records: neither its count nor the length of its list
\* exceeds the limit.
C38_HistoryWithinLimit ==
    /\ ec.undo_stack.count <= MAX_UNDO_LEVELS
    /\ Len(ec.undo_stack.list) <= MAX_UNDO_LEVELS

\* C39: in every reachable state the cursor is on a row or on the line
\* past the last row, 0 <= cursor_y <= num_rows; on a row cursor_x is
\* within the row, and past the last row it is 0.
C39_CursorInRange ==
    Alive =>
        /\ 0 <= ec.cursor_y
        /\ ec.cursor_y <= NumRows(ec)
        /\ 0 <= ec.cursor_x
        /\ ec.cursor_y < NumRows(ec)
               => ec.cursor_x <= Len(ec.row[ec.cursor_y + 1].chars)
        /\ ec.cursor_y = NumRows(ec) => ec.cursor_x = 0

\* C40: after any earlier history, each of the undos that follow a run of
\* n <= MAX_UNDO_LEVELS new edits reports success, and the n-th leaves the
\* text as it was before the run.
C40_RunUndone ==
    hist.phase = "undo" =>
        /\ hist.done
        /\ hist.undos = hist.run => LogicalText(ec.gb) = hist.base

=============================================================================
